---- MODULE Spec2Model ----
(***************************************************************************)
(* Model of the kio-afp worker (src/src/kafp_worker.cpp, first             *)
(* implementation in the file): URL decomposition, the per-process session *)
(* cache, the cross-process connect procedure (lock file, circuit breaker, *)
(* bounded retries), the attach procedure, stale-session recovery and the  *)
(* KIO verbs.  The afpfs-ng stateless client library, the credential store *)
(* and the password dialog are the environment: each of their calls is one *)
(* step whose result is chosen from the results the call can produce.      *)
(*                                                                         *)
(* Strings that the code splits or joins (URL paths) are sequences of      *)
(* one-character strings.  Byte arrays are sequences of extents            *)
(* [t, o, n]: n bytes of the source named t starting at its offset o.      *)
(***************************************************************************)
EXTENDS Integers, Sequences, FiniteSets, TLC

\* ---------------------------------------------------------------- constants
READ_CHUNK == 64 * 1024
BREAKER_COOLDOWN_SECS == 30
MAX_CONNECT_RETRIES == 3
BATCH == 64

\* ------------------------------------------------------------------- bounds
\* seconds that pass in one step of the clock
TickSecs == 15
\* the call counters of an operation stop counting here
CountCap == 2
\* lengths in bytes of the two contents a caller uploads
LenA == 65538
LenB == 65536
\* a directory listing has at most this many entries
MaxDirEntries == 65
\* a read or write call returns a short count at most this often per transfer
MaxShort == 1
\* the path of a URL has at most this many characters
MaxPathLen == 6
\* the caller of put hands over at most this many bytes per buffer
PutSplit == 65536

Procs == {"w1", "w2"}
Servers == {"A", "B"}

\* ------------------------------------------------------------ result codes
OKAY == "OKAY"
Recoverable == {"NOTCONNECTED", "NOTATTACHED", "DAEMON_ERROR", "NOSERVER", "TIMEDOUT"}

isRecoverableOrDenied(ret) ==
    ret \in {"NOTCONNECTED", "NOTATTACHED", "DAEMON_ERROR", "NOSERVER", "TIMEDOUT",
             "ACCESS"}

isRecoverableSessionError(ret) ==
    ret \in {"NOTCONNECTED", "NOTATTACHED", "DAEMON_ERROR", "NOSERVER", "TIMEDOUT"}

mapAfpError(ret) ==
    CASE ret = "OKAY" -> "OK"
      [] ret = "ENOENT" -> "ERR_DOES_NOT_EXIST"
      [] ret = "ACCESS" -> "ERR_ACCESS_DENIED"
      [] ret = "EXIST" -> "ERR_FILE_ALREADY_EXIST"
      [] ret = "NOVOLUME" -> "ERR_DOES_NOT_EXIST"
      [] ret = "NOSERVER" -> "ERR_CANNOT_CONNECT"
      [] ret = "TIMEDOUT" -> "ERR_SERVER_TIMEOUT"
      [] ret = "DAEMON_ERROR" -> "ERR_CANNOT_CONNECT"
      [] ret = "NOTSUPPORTED" -> "ERR_UNSUPPORTED_ACTION"
      [] ret = "NOTCONNECTED" -> "ERR_CANNOT_CONNECT"
      [] ret = "NOTATTACHED" -> "ERR_CANNOT_CONNECT"
      [] ret = "NOAUTHENT" -> "ERR_CANNOT_AUTHENTICATE"
      [] OTHER -> "ERR_INTERNAL"

mapAfpConnectError(ret) ==
    CASE ret = "NOAUTHENT" -> "ERR_CANNOT_AUTHENTICATE"
      [] ret = "NOSERVER" -> "ERR_CANNOT_CONNECT"
      [] ret = "TIMEDOUT" -> "ERR_SERVER_TIMEOUT"
      [] ret = "DAEMON_ERROR" -> "ERR_CANNOT_CONNECT"
      [] OTHER -> "ERR_CANNOT_CONNECT"

\* ------------------------------------------------------------- URL parsing
RECURSIVE SplitSkipEmpty(_, _)
\* QString::split('/', Qt::SkipEmptyParts) of a string given as characters;
\* cur is the part collected so far
SplitSkipEmpty(s, cur) ==
    IF s = <<>> THEN (IF cur = <<>> THEN <<>> ELSE <<cur>>)
    ELSE IF Head(s) = "/"
         THEN (IF cur = <<>> THEN <<>> ELSE <<cur>>) \o SplitSkipEmpty(Tail(s), <<>>)
         ELSE SplitSkipEmpty(Tail(s), Append(cur, Head(s)))

JoinFirst(parts) == IF parts = <<>> THEN <<>> ELSE parts[1]

RECURSIVE JoinSlash(_)
\* QStringList::join('/')
JoinSlash(parts) ==
    IF parts = <<>> THEN <<>>
    ELSE IF Len(parts) = 1 THEN parts[1]
    ELSE parts[1] \o <<"/">> \o JoinSlash(Tail(parts))

NoCred == <<>>

parseAfpUrl(url) ==
    LET parts == SplitSkipEmpty(url.path, <<>>)
        hasVolume == parts # <<>>
        hasPath == Len(parts) > 1
        path == IF hasPath THEN JoinSlash(Tail(parts)) ELSE <<>>
    IN [server |-> url.host,
        volume |-> IF hasVolume THEN parts[1] ELSE <<>>,
        path |-> path,
        hasVolume |-> hasVolume,
        hasPath |-> hasPath,
        username |-> url.user,
        password |-> url.pass,
        afpPath |-> IF path # <<>> THEN <<"/">> \o path
                    ELSE IF hasVolume /\ ~hasPath THEN <<"/">> ELSE <<>>]

\* --------------------------------------------------------------- variables
VARIABLES
    m,        \* m[w]: the session cache of worker w (the m_ members)
    rq,       \* rq[w]: the request worker w is serving (verb and arguments)
    fr,       \* fr[w]: position and locals of the running handler
    res,      \* res[w]: the WorkerResult of the handler, once it has returned
    out,      \* out[w]: what the handler has emitted to the host so far
    gh,       \* gh[w]: history of the running operation, see NoHistory
    breaker,  \* age in seconds of the breaker marker file, NoBreaker if absent
    fs        \* the regular files of the remote volumes, by <<server, volume, path>>

vars == <<m, rq, fr, res, out, gh, breaker, fs>>

NoBreaker == -1
NullId == <<>>

EmptySession(setup) ==
    [m_connSetupDone |-> setup,
     m_serverId |-> NullId, m_cachedServer |-> "",
     m_volumeId |-> NullId, m_cachedVolume |-> <<>>,
     m_cachedUser |-> NoCred, m_cachedPass |-> NoCred]

NoReq == [verb |-> "none"]
NoRes == [err |-> "none", msg |-> <<>>]

IdleFrame ==
    [pc |-> "idle", ecRet |-> "", site |-> "", retried |-> FALSE, ret |-> "",
     username |-> NoCred, password |-> NoCred,
     dialogUsed |-> FALSE, keepPassword |-> TRUE,
     transientRetries |-> 0, lockFd |-> FALSE,
     exists |-> FALSE, offset |-> 0, start |-> 0, sent |-> 0, size |-> 0,
     shorts |-> 0, sid |-> FALSE, alarm |-> FALSE]

CallKinds ==
    {"connect", "attach", "getvolid", "disconnect", "file", "close", "persist",
     "nohandle"}

\* what the previous operation of a worker left behind, for the histories
\* that span two operations
NoPrev == [target |-> <<>>, connect |-> 0, attach |-> 0, clean |-> TRUE]

\* history of the running operation: did is the set of library calls made by
\* the worker's latest step.  With track = "pair", connect and attach count
\* the calls of the operation, clean tells that no connect, attach or volume
\* query has failed and no call has returned a recoverable code, and prev
\* holds the same for the operation before.  With track = "log", log tells
\* how the operations before went, see Logged.  recoveries counts, up to
\* CountCap, the times the operation has invalidated the session after a
\* failed call.
NoHistory ==
    [did |-> {}, track |-> "", target |-> <<>>,
     connect |-> 0, attach |-> 0, clean |-> TRUE, prev |-> NoPrev, log |-> 0,
     switchedFrom |-> "", freshAtBegin |-> FALSE, sawExpired |-> FALSE,
     recoveries |-> 0]

Init ==
    /\ m = [w \in Procs |-> EmptySession(FALSE)]
    /\ rq = [w \in Procs |-> NoReq]
    /\ fr = [w \in Procs |-> IdleFrame]
    /\ res = [w \in Procs |-> NoRes]
    /\ out = [w \in Procs |-> <<>>]
    /\ gh = [w \in Procs |-> NoHistory]
    /\ breaker = NoBreaker

\* ------------------------------------------------------------ step helpers
Min(a, b) == IF a < b THEN a ELSE b

PU(w) == parseAfpUrl(rq[w].url)

\* history h after a step that made the library calls named in calls
Bump(h, calls) ==
    LET count(k) == Cardinality({i \in DOMAIN calls : calls[i] = k})
    IN [h EXCEPT !.did = {calls[i] : i \in DOMAIN calls},
          !.connect = IF h.track = "pair" THEN Min(CountCap, @ + count("connect")) ELSE @,
          !.attach = IF h.track = "pair" THEN Min(CountCap, @ + count("attach")) ELSE @]

\* history after a step of worker w that made no library call
Still(w) == Bump(gh[w], <<>>)

\* history h after a failure that costs the session
Soil(h) == IF h.track = "pair" THEN [h EXCEPT !.clean = FALSE] ELSE h

\* the retry sits inside the if of the first failure, not in a loop: a call
\* that has been re-issued is not recovered again; the variant loops
MayRecoverAgain(retried) == TRUE
MayRecover(retried) == ~retried

\* history h after a call whose failure makes the handler recover
Recovery(h) ==
    [h EXCEPT !.recoveries = IF @ < CountCap THEN @ + 1 ELSE @]

\* one step of worker w: everything of w that a step can change
Step(w, newM, newFr, newRes, newOut, newGh) ==
    /\ m' = [m EXCEPT ![w] = newM]
    /\ fr' = [fr EXCEPT ![w] = newFr]
    /\ res' = [res EXCEPT ![w] = newRes]
    /\ out' = [out EXCEPT ![w] = newOut]
    /\ gh' = [gh EXCEPT ![w] = newGh]

\* the handler returns: its locals go out of scope, the last result code is
\* kept for the history; a lock descriptor that was not closed stays open
\* and an alarm that was not cancelled stays armed
Done(f) ==
    [IdleFrame EXCEPT !.pc = "done", !.ret = f.ret, !.lockFd = f.lockFd,
       !.alarm = f.alarm]
Failure(err, msg) == [err |-> err, msg |-> msg]
Passed == [err |-> "OK", msg |-> <<>>]

BreakerPresent == breaker # NoBreaker

\* stat() of the marker succeeds and age < BREAKER_COOLDOWN_SECS
BreakerActive == breaker # NoBreaker /\ breaker < BREAKER_COOLDOWN_SECS
LockFree(w) == \A v \in Procs \ {w} : ~fr[v].lockFd

\* stat of a volume root falls back to a synthetic entry when the session
\* cannot be established; every other caller returns the failure
IsVolumeRootStat(w) == rq[w].verb = "stat" /\ PU(w).hasVolume /\ ~PU(w).hasPath
EstablishFailAlways(w, err, msg) == Failure(err, msg)
EstablishFailRes(w, err, msg) ==
    IF IsVolumeRootStat(w) THEN Passed ELSE Failure(err, msg)
EstablishFailOut(w) ==
    IF IsVolumeRootStat(w)
    THEN Append(out[w], [kind |-> "statEntry", synthetic |-> TRUE, name |-> PU(w).volume])
    ELSE out[w]

\* where ensureConnected returns to when it succeeds
AfterConnected(f) ==
    CASE f.ecRet = "ea" -> "ea_connected"
      [] f.ecRet = "ea_reset" -> "ea_reattach"
      [] OTHER -> f.site

\* ------------------------------------------------------- ensureConnected
NeverConnected(s) == FALSE

\* if (m_serverId): the session cache holds a server handle
Connected(s) == s.m_serverId # NullId

\* if (m_serverId && m_cachedServer != pu.server)
SwitchNeeded(s, pu) == s.m_serverId # NullId /\ s.m_cachedServer # pu.server

SwitchedKeepingCredentials(s) ==
    [s EXCEPT !.m_serverId = NullId, !.m_cachedServer = "",
       !.m_volumeId = NullId, !.m_cachedVolume = <<>>]

\* the session cache after the disconnect from the other server
Switched(s) == EmptySession(s.m_connSetupDone)

\* a test that is content with a user name
HaveUser(u, p) == u # NoCred

\* haveCreds = !info.username.isEmpty() && !info.password.isEmpty()
HaveCreds(u, p) == u # NoCred /\ p # NoCred

\* entry: ensureConnSetup, server switch, reuse of the cached session,
\* credentials from the URL
EcBegin(w) ==
    /\ fr[w].pc = "ec_begin"
    /\ LET pu == PU(w)
           s0 == [m[w] EXCEPT !.m_connSetupDone = TRUE]
           switch == SwitchNeeded(s0, pu)
           s1 == IF switch THEN Switched(s0) ELSE s0
           h1 == [Bump(gh[w], IF switch THEN <<"disconnect">> ELSE <<>>)
                    EXCEPT !.switchedFrom =
                             IF m[w].m_serverId # NullId /\ m[w].m_cachedServer # pu.server
                             THEN m[w].m_cachedServer ELSE ""]
           f0 == [fr[w] EXCEPT !.ret = ""]
       IN IF Connected(s1)
          THEN Step(w, s1,
                    [f0 EXCEPT !.pc = AfterConnected(f0),
                       !.username = IF s1.m_cachedUser # NoCred THEN s1.m_cachedUser ELSE @,
                       !.password = IF s1.m_cachedPass # NoCred THEN s1.m_cachedPass ELSE @],
                    res[w], out[w], h1)
          ELSE Step(w, s1,
                    [f0 EXCEPT !.pc = IF HaveCreds(f0.username, f0.password)
                                      THEN "ec_brk1" ELSE "ec_cache",
                       !.dialogUsed = FALSE, !.keepPassword = TRUE,
                       !.transientRetries = 0],
                    res[w], out[w],
                    [h1 EXCEPT !.freshAtBegin = BreakerActive, !.sawExpired = FALSE])
    /\ UNCHANGED <<rq, breaker, fs>>

\* checkCachedAuthentication: the store has nothing, a user name and a
\* password, or a user name only
EcCache(w) ==
    /\ fr[w].pc = "ec_cache"
    /\ \E found \in {"none", "both", "user"} :
         LET u == IF found = "none" THEN fr[w].username ELSE <<"store", PU(w).server>>
             p == IF found = "none" THEN fr[w].password
                  ELSE IF found = "both" THEN <<"store", PU(w).server>> ELSE NoCred
         IN Step(w, m[w],
                 [fr[w] EXCEPT !.username = u, !.password = p,
                    !.pc = IF HaveCreds(u, p) THEN "ec_brk1" ELSE "ec_prompt"],
                 res[w], out[w], Still(w))
    /\ UNCHANGED <<rq, breaker, fs>>

\* openPasswordDialog before the first connect
EcPrompt(w) ==
    /\ fr[w].pc = "ec_prompt"
    /\ \/ Step(w, m[w], Done(fr[w]),
               EstablishFailRes(w, "ERR_USER_CANCELED", <<>>), EstablishFailOut(w),
               Still(w))
       \/ \E keep \in BOOLEAN :
            Step(w, m[w],
                 [fr[w] EXCEPT !.username = <<"dlg", PU(w).server>>,
                    !.password = <<"dlg", PU(w).server>>,
                    !.dialogUsed = TRUE, !.keepPassword = keep, !.pc = "ec_brk1"],
                 res[w], out[w], Still(w))
    /\ UNCHANGED <<rq, breaker, fs>>

\* a frame that keeps the lock where the code closes it
KeepLock(f) == f

\* close(lockFd): the advisory lock goes with the descriptor
CloseLock(f) == [f EXCEPT !.lockFd = FALSE]

\* stat() of the breaker marker; first: before the lock, second: with the lock
EcBreaker(w, first) ==
    /\ fr[w].pc = IF first THEN "ec_brk1" ELSE "ec_brk2"
    /\ IF BreakerActive
       THEN Step(w, m[w], CloseLock(Done(fr[w])),
                 EstablishFailRes(w, "ERR_CANNOT_CONNECT",
                                  <<"retry_in", BREAKER_COOLDOWN_SECS - breaker>>),
                 EstablishFailOut(w), Still(w))
       ELSE IF breaker # NoBreaker
       THEN Step(w, m[w],
                 [fr[w] EXCEPT !.pc = IF first THEN "ec_unlink1" ELSE "ec_unlink2"],
                 res[w], out[w], [Still(w) EXCEPT !.sawExpired = TRUE])
       ELSE Step(w, m[w],
                 [fr[w] EXCEPT !.pc = IF first THEN "ec_lock" ELSE "ec_connect"],
                 res[w], out[w], Still(w))
    /\ UNCHANGED <<rq, breaker, fs>>

EcBreaker1(w) == EcBreaker(w, TRUE)
EcBreaker2(w) == EcBreaker(w, FALSE)

\* unlink() of a marker that the preceding stat() found expired
EcUnlink(w) ==
    /\ fr[w].pc \in {"ec_unlink1", "ec_unlink2"}
    /\ breaker' = NoBreaker
    /\ Step(w, m[w],
            [fr[w] EXCEPT !.pc = IF @ = "ec_unlink1" THEN "ec_lock" ELSE "ec_connect"],
            res[w], out[w], Still(w))
    /\ UNCHANGED <<rq, fs>>

\* open() and flock(LOCK_EX) of the lock file: blocks while a sibling holds it
EcLock(w) ==
    /\ fr[w].pc \in {"ec_lock", "ec_relock"}
    /\ LockFree(w)
    /\ Step(w, m[w],
            [fr[w] EXCEPT !.lockFd = TRUE,
               !.pc = IF @ = "ec_lock" THEN "ec_brk2" ELSE "ec_connect"],
            res[w], out[w], Still(w))
    /\ UNCHANGED <<rq, breaker, fs>>

\* open() of the lock file fails: flock is skipped and the procedure goes on
\* without the lock
EcLockFail(w) ==
    /\ fr[w].pc \in {"ec_lock", "ec_relock"}
    /\ Step(w, m[w],
            [fr[w] EXCEPT !.lockFd = FALSE,
               !.pc = IF @ = "ec_lock" THEN "ec_brk2" ELSE "ec_connect"],
            res[w], out[w], Still(w))
    /\ UNCHANGED <<rq, breaker, fs>>

\* what afp_sl_connect can return: a result code and whether a server id came
\* with it
ConnectResults ==
    [ret : {"OKAY", "ALREADY_CONNECTED"}, sid : BOOLEAN]
    \cup [ret : {"NOAUTHENT", "DAEMON_ERROR", "NOSERVER", "TIMEDOUT"}, sid : {FALSE}]

\* the breaker marker after open(O_CREAT | O_WRONLY) and close: a missing
\* file is created now, an existing one keeps its modification time
TripBreaker(b) == IF b = NoBreaker THEN 0 ELSE b

\* a connect result taken as the library reports it
Unchecked(r) == r.ret

\* the sanity check on a connect result: success without a server id counts
\* as a daemon error
Checked(r) ==
    IF r.ret \in {"OKAY", "ALREADY_CONNECTED"} /\ ~r.sid THEN "DAEMON_ERROR" ELSE r.ret

\* a retry test that allows one retry too many
MayRetryOnceMore(n) == n <= MAX_CONNECT_RETRIES

\* the retry test of the connect loop on its count of retries so far
MayRetry(n) == n < MAX_CONNECT_RETRIES

\* alarm(CONNECT_TIMEOUT_SECS) after signal(SIGALRM, SIG_DFL)
Armed(f) == [f EXCEPT !.alarm = TRUE]

\* a return from afp_sl_connect that leaves the alarm pending
AlarmKept(f) == f

\* alarm(0)
AlarmOff(f) == [f EXCEPT !.alarm = FALSE]

\* one pass of the connect loop: afp_sl_connect under the alarm, then the
\* branch taken on its result up to the next blocking call
EcConnect(w) ==
    /\ fr[w].pc = "ec_connect"
    /\ \E r \in ConnectResults :
         LET ret == Checked(r)
             h0 == Bump(gh[w], IF r.ret \in {"OKAY", "ALREADY_CONNECTED"} /\ ~r.sid
                               THEN <<"connect", "nohandle">> ELSE <<"connect">>)
             h1 == Soil(h0)
             f1 == [AlarmOff(Armed(fr[w])) EXCEPT !.ret = ret]
         IN IF ret \in {"OKAY", "ALREADY_CONNECTED"}
            THEN /\ Step(w, m[w], [CloseLock(f1) EXCEPT !.pc = "ec_ok", !.sid = r.sid],
                         res[w], out[w], h0)
                 /\ breaker' = breaker
            ELSE IF ret = "NOAUTHENT"
            THEN /\ Step(w, m[w], [CloseLock(f1) EXCEPT !.pc = "ec_reprompt"],
                         res[w], out[w], h1)
                 /\ breaker' = breaker
            ELSE IF MayRetry(fr[w].transientRetries)
            THEN /\ Step(w, m[w], [f1 EXCEPT !.pc = "ec_backoff"], res[w], out[w], h1)
                 /\ breaker' = breaker
            ELSE /\ Step(w, m[w], CloseLock(Done(f1)),
                         EstablishFailRes(w, mapAfpConnectError(ret), <<>>),
                         EstablishFailOut(w), h1)
                 /\ breaker' = TripBreaker(breaker)
    /\ UNCHANGED <<rq, fs>>

\* afp_sl_connect is called under the alarm and does not return
EcConnectHang(w) ==
    /\ fr[w].pc = "ec_connect"
    /\ Step(w, m[w], [Armed(fr[w]) EXCEPT !.pc = "ec_hung"], res[w], out[w],
            Bump(gh[w], <<"connect">>))
    /\ UNCHANGED <<rq, breaker, fs>>

\* SIGALRM with the default action: the worker process is terminated, its
\* descriptors are closed and with them the advisory lock is released
Sigalrm(w) ==
    /\ fr[w].alarm
    /\ Step(w, EmptySession(FALSE), [IdleFrame EXCEPT !.pc = "killed"], NoRes, <<>>,
            Still(w))
    /\ UNCHANGED <<rq, breaker, fs>>

\* QThread::msleep(delay) with the lock held, then ++transientRetries
EcBackoff(w) ==
    /\ fr[w].pc = "ec_backoff"
    /\ Step(w, m[w],
            [fr[w] EXCEPT !.transientRetries = @ + 1, !.ret = "", !.pc = "ec_connect"],
            res[w], out[w], Still(w))
    /\ UNCHANGED <<rq, breaker, fs>>

\* a test that persists whenever the keep flag is set
PersistsWhenKept(dialogUsed, keepPassword) == keepPassword

\* the test that guards cacheAuthentication
Persists(dialogUsed, keepPassword) == dialogUsed /\ keepPassword

\* success branch after the lock is closed: unlink the marker, fill the
\* session cache, cacheAuthentication if the dialog was used
EcOk(w) ==
    /\ fr[w].pc = "ec_ok"
    /\ breaker' = NoBreaker
    /\ Step(w,
            [m[w] EXCEPT !.m_serverId = IF fr[w].sid THEN <<PU(w).server>> ELSE NullId,
               !.m_cachedServer = PU(w).server,
               !.m_cachedUser = fr[w].username,
               !.m_cachedPass = fr[w].password],
            [fr[w] EXCEPT !.pc = AfterConnected(fr[w]), !.dialogUsed = FALSE,
               !.keepPassword = TRUE, !.transientRetries = 0, !.ret = "",
               !.sid = FALSE],
            res[w], out[w],
            Bump(gh[w], IF Persists(fr[w].dialogUsed, fr[w].keepPassword)
                        THEN <<"persist">> ELSE <<>>))
    /\ UNCHANGED <<rq, fs>>

\* openPasswordDialog after NOAUTHENT, with the lock released
EcReprompt(w) ==
    /\ fr[w].pc = "ec_reprompt"
    /\ \/ Step(w, m[w], Done(fr[w]),
               EstablishFailRes(w, "ERR_USER_CANCELED", <<>>), EstablishFailOut(w),
               Still(w))
       \/ \E keep \in BOOLEAN :
            Step(w, m[w],
                 [fr[w] EXCEPT !.username = <<"dlg", PU(w).server>>,
                    !.password = <<"dlg", PU(w).server>>, !.ret = "",
                    !.dialogUsed = TRUE, !.keepPassword = keep, !.pc = "ec_relock"],
                 res[w], out[w], Still(w))
    /\ UNCHANGED <<rq, breaker, fs>>

\* ---------------------------------------------------------------- the clock
\* TickSecs seconds pass; ages beyond the cooldown are not told apart
Tick ==
    /\ breaker # NoBreaker
    /\ breaker < BREAKER_COOLDOWN_SECS
    /\ breaker' = Min(BREAKER_COOLDOWN_SECS, breaker + TickSecs)
    /\ UNCHANGED <<m, rq, fr, res, out, gh, fs>>

\* --------------------------------------------------------- ensureAttached
\* entering ensureAttached on the way to the call at site: it starts with
\* ensureConnected (the hasVolume test is made where the verb is dispatched)
EnterAttach(f, site, retried) ==
    [f EXCEPT !.pc = "ec_begin", !.ecRet = "ea", !.site = site, !.retried = retried]

\* entering ensureConnected directly (listDir of a server root)
EnterConnect(f, site, retried) ==
    [f EXCEPT !.pc = "ec_begin", !.ecRet = "verb", !.site = site, !.retried = retried]

Attached(s, pu) ==
    [s EXCEPT !.m_volumeId = <<pu.server, pu.volume>>, !.m_cachedVolume = pu.volume]

\* a volume switch that drops the server session as well
VolumeSwitchedOffServer(s) ==
    [s EXCEPT !.m_volumeId = NullId, !.m_cachedVolume = <<>>,
       !.m_serverId = NullId, !.m_cachedServer = ""]

\* a volume switch that keeps the attachment to the old volume
VolumeKept(s) == s

\* the session cache after the switch to another volume of the server
VolumeSwitched(s) == [s EXCEPT !.m_volumeId = NullId, !.m_cachedVolume = <<>>]

\* after ensureConnected: volume switch, reuse of the cached attachment
EaConnected(w) ==
    /\ fr[w].pc = "ea_connected"
    /\ LET pu == PU(w)
           switch == m[w].m_volumeId # NullId /\ m[w].m_cachedVolume # pu.volume
           s1 == IF switch THEN VolumeSwitched(m[w]) ELSE m[w]
       IN Step(w, s1,
               [fr[w] EXCEPT !.pc = IF s1.m_volumeId # NullId THEN fr[w].site
                                    ELSE "ea_attach"],
               res[w], out[w], Still(w))
    /\ UNCHANGED <<rq, breaker, fs>>

AttachResults ==
    {"OKAY", "ALREADY_MOUNTED", "ALREADY_ATTACHED", "NOVOLUME", "ACCESS"} \cup Recoverable

\* afp_sl_attach; first: the attach before any reset, else the one after it
EaAttachCall(w, first) ==
    /\ fr[w].pc = IF first THEN "ea_attach" ELSE "ea_reattach"
    /\ \E ret \in AttachResults :
         LET h1 == Bump(gh[w], <<"attach">>)
             f1 == [fr[w] EXCEPT !.ret = ret]
         IN IF ret \in {"ALREADY_MOUNTED", "ALREADY_ATTACHED"}
            THEN Step(w, m[w],
                      [f1 EXCEPT !.pc = IF first THEN "ea_getvolid" ELSE "ea_getvolid2"],
                      res[w], out[w], h1)
            ELSE IF ret # OKAY
            THEN Step(w, m[w], Done(f1),
                      EstablishFailRes(w, mapAfpError(ret), <<>>),
                      EstablishFailOut(w), Soil(h1))
            ELSE Step(w, Attached(m[w], PU(w)), [f1 EXCEPT !.pc = fr[w].site],
                      res[w], out[w], h1)
    /\ UNCHANGED <<rq, breaker, fs>>

EaAttach(w) == EaAttachCall(w, TRUE)
EaReattach(w) == EaAttachCall(w, FALSE)

GetvolidResults == {"OKAY", "ENOENT"} \cup Recoverable

\* a volume query whose failure always resets the server session
MayResetAgain(first) == TRUE

\* only the failure of the first volume query resets the server session
MayReset(first) == first

\* afp_sl_getvolid after ALREADY_MOUNTED / ALREADY_ATTACHED; first: the query
\* before any reset, whose failure disconnects and re-runs ensureConnected;
\* else the query after the reset, whose failure is final
EaGetvolidCall(w, first) ==
    /\ fr[w].pc = IF first THEN "ea_getvolid" ELSE "ea_getvolid2"
    /\ \E ret \in GetvolidResults :
         IF ret # OKAY /\ MayReset(first)
         THEN Step(w, [m[w] EXCEPT !.m_serverId = NullId, !.m_cachedServer = ""],
                   [fr[w] EXCEPT !.pc = "ec_begin", !.ecRet = "ea_reset", !.ret = ret],
                   res[w], out[w], Soil(Bump(gh[w], <<"getvolid", "disconnect">>)))
         ELSE IF ret # OKAY
         THEN Step(w, m[w], Done([fr[w] EXCEPT !.ret = ret]),
                   EstablishFailRes(w, mapAfpError(ret), <<>>),
                   EstablishFailOut(w), Soil(Bump(gh[w], <<"getvolid">>)))
         ELSE Step(w, Attached(m[w], PU(w)),
                   [fr[w] EXCEPT !.pc = fr[w].site, !.ret = ret],
                   res[w], out[w], Bump(gh[w], <<"getvolid">>))
    /\ UNCHANGED <<rq, breaker, fs>>

EaGetvolid(w) == EaGetvolidCall(w, TRUE)
EaGetvolid2(w) == EaGetvolidCall(w, FALSE)

\* ------------------------------------------------- stale-session recovery
invalidateServerOnly(s) == [s EXCEPT !.m_serverId = NullId, !.m_cachedServer = ""]

invalidateSessionState(s) == EmptySession(s.m_connSetupDone)

\* the tail shared by the calls that recover once: on a recoverable code of
\* the first call invalidate and re-enter ensureAttached / ensureConnected,
\* on any other failure return the mapped error, else continue with okFr
OneShot(w, ret, viaAttach, okFr, okRes, okOut) ==
    LET calls == IF m[w].m_serverId # NullId THEN <<"file", "disconnect">>
                 ELSE <<"file">>
        f1 == [fr[w] EXCEPT !.ret = ret]
        h1 == IF ret \in Recoverable THEN Soil(gh[w]) ELSE gh[w]
    IN IF ret # OKAY /\ isRecoverableSessionError(ret) /\ MayRecover(fr[w].retried)
       THEN Step(w, invalidateSessionState(m[w]),
                 IF viaAttach THEN EnterAttach(f1, fr[w].site, TRUE)
                 ELSE EnterConnect(f1, fr[w].site, TRUE),
                 res[w], out[w], Bump(Recovery(h1), calls))
       ELSE IF ret # OKAY
       THEN Step(w, m[w], Done(f1), Failure(mapAfpError(ret), <<>>), out[w],
                 Bump(h1, <<"file">>))
       ELSE Step(w, m[w], [okFr EXCEPT !.ret = ret], okRes, okOut,
                 Bump(h1, <<"file">>))

\* moving on to the call at site
Goto(f, site) == [f EXCEPT !.pc = site, !.site = site, !.retried = FALSE]

\* ------------------------------------------------------- the remote files
Absent == "absent"
Faults == Recoverable \cup {"ACCESS"}

Key(pu) == <<pu.server, pu.volume, pu.afpPath>>
File(k) == IF k \in DOMAIN fs THEN fs[k] ELSE Absent

RECURSIVE DLen(_)
\* QByteArray::size
DLen(d) == IF d = <<>> THEN 0 ELSE Head(d).n + DLen(Tail(d))

RECURSIVE DNorm(_)
\* canonical form: no empty extent, adjacent extents of one source merged
DNorm(d) ==
    IF d = <<>> THEN <<>>
    ELSE IF Head(d).n = 0 THEN DNorm(Tail(d))
    ELSE LET r == DNorm(Tail(d))
         IN IF r # <<>> /\ r[1].t = Head(d).t /\ r[1].o = Head(d).o + Head(d).n
            THEN <<[t |-> Head(d).t, o |-> Head(d).o, n |-> Head(d).n + r[1].n]>> \o Tail(r)
            ELSE <<Head(d)>> \o r

RECURSIVE DTake(_, _)
\* the first k bytes
DTake(d, k) ==
    IF d = <<>> \/ k <= 0 THEN <<>>
    ELSE IF Head(d).n <= k THEN <<Head(d)>> \o DTake(Tail(d), k - Head(d).n)
    ELSE <<[Head(d) EXCEPT !.n = k]>>

RECURSIVE DDrop(_, _)
\* all but the first k bytes
DDrop(d, k) ==
    IF d = <<>> THEN <<>>
    ELSE IF k <= 0 THEN d
    ELSE IF Head(d).n <= k THEN DDrop(Tail(d), k - Head(d).n)
    ELSE <<[Head(d) EXCEPT !.o = @ + k, !.n = @ - k]>> \o Tail(d)

DCat(a, b) == DNorm(a \o b)
Bytes(t, n) == DNorm(<<[t |-> t, o |-> 0, n |-> n]>>)

\* the file content c after buf is written at offset off
DWrite(c, off, buf) ==
    LET pad == IF off > DLen(c) THEN <<[t |-> "zero", o |-> 0, n |-> off - DLen(c)]>>
               ELSE <<>>
    IN DCat(DCat(DCat(DTake(c, off), pad), buf), DDrop(c, off + DLen(buf)))

\* afp_sl_stat: a regular file answers with its size; a path without one is
\* missing or a directory
LibStat(k) ==
    (IF File(k) # Absent
     THEN {[ret |-> OKAY, dir |-> FALSE, size |-> DLen(File(k))]}
     ELSE {[ret |-> "ENOENT", dir |-> FALSE, size |-> 0],
           [ret |-> OKAY, dir |-> TRUE, size |-> 0]})
    \cup [ret : Faults, dir : {FALSE}, size : {0}]

\* afp_sl_mkdir, afp_sl_rmdir, afp_sl_chmod, afp_sl_statfs: result codes only
LibMkdir(k) == (IF File(k) # Absent THEN {"EXIST"} ELSE {OKAY, "EXIST"}) \cup Faults
LibRmdir(k) == (IF File(k) # Absent THEN {} ELSE {OKAY, "ENOENT"}) \cup Faults
LibChmod(k) == {OKAY} \cup Faults
LibStatfs == {OKAY} \cup Faults

\* afp_sl_unlink
LibUnlink(k) == (IF File(k) # Absent THEN {OKAY} ELSE {"ENOENT"}) \cup Faults
Unlinked(k) == [x \in DOMAIN fs |-> IF x = k THEN Absent ELSE fs[x]]

\* afp_sl_rename: a regular file moves with its content
LibRename(k) == (IF File(k) # Absent THEN {OKAY} ELSE {OKAY, "ENOENT"}) \cup Faults
Renamed(k, d) ==
    IF File(k) = Absent THEN fs
    ELSE [x \in DOMAIN fs |-> IF x = d THEN fs[k] ELSE IF x = k THEN Absent ELSE fs[x]]

\* ------------------------------------------------------------ the requests
\* a QUrl: the verbs are handed whatever URL the host has, of any scheme
Url(host, inline, path) ==
    [scheme |-> "afp", host |-> host, path |-> path,
     user |-> IF inline THEN <<"url", host>> ELSE NoCred,
     pass |-> IF inline THEN <<"url", host>> ELSE NoCred]

NoUrl == Url("", FALSE, <<>>)

Req(verb, url) ==
    [verb |-> verb, url |-> url, dest |-> NoUrl, overwrite |-> FALSE,
     permissions |-> -1, isFile |-> TRUE, input |-> <<>>]

\* the frame a handler starts with: pu.afpUrl carries the URL's credentials
StartFrame(op) ==
    [IdleFrame EXCEPT !.username = op.url.user, !.password = op.url.pass]

\* parse and the tests a verb makes before it touches the session: the error
\* it returns at once, or the call site it heads for
DelRejectedAtServerRootOnly(pu) == ~pu.hasVolume

\* del: if (!pu.hasPath)
DelRejected(pu) == ~pu.hasPath

SameServer(pu, pd) == pu.server = pd.server

\* rename: the negation of
\* if (puSrc.server != puDest.server || puSrc.volume != puDest.volume)
SameVolume(pu, pd) == ~(pu.server # pd.server \/ pu.volume # pd.volume)

Dispatch(op) ==
    LET pu == parseAfpUrl(op.url)
        pd == parseAfpUrl(op.dest)
        go(site) == [err |-> "", site |-> site]
        no(err) == [err |-> err, site |-> ""]
    IN CASE op.verb = "stat" ->
              IF ~pu.hasVolume THEN no("OK")
              ELSE IF ~pu.hasPath THEN go("stat_vroot") ELSE go("stat_path")
         [] op.verb = "listDir" ->
              IF ~pu.hasVolume THEN go("getvols") ELSE go("ld_stat")
         [] op.verb = "get" ->
              IF ~pu.hasPath THEN no("ERR_IS_DIRECTORY") ELSE go("get_stat")
         [] op.verb = "put" ->
              IF ~pu.hasPath THEN no("ERR_ACCESS_DENIED") ELSE go("put_stat")
         [] op.verb = "mkdir" ->
              IF ~pu.hasPath THEN no("ERR_ACCESS_DENIED") ELSE go("mkdir")
         [] op.verb = "del" ->
              IF DelRejected(pu) THEN no("ERR_ACCESS_DENIED") ELSE go("del")
         [] op.verb = "rename" ->
              IF ~pu.hasPath \/ ~pd.hasPath THEN no("ERR_UNSUPPORTED_ACTION")
              ELSE IF ~SameVolume(pu, pd)
              THEN no("ERR_UNSUPPORTED_ACTION")
              ELSE IF ~op.overwrite THEN go("ren_stat") ELSE go("rename")
         [] op.verb = "chmod" ->
              IF ~pu.hasPath THEN no("ERR_UNSUPPORTED_ACTION") ELSE go("chmod")
         [] OTHER ->
              IF ~pu.hasVolume THEN no("ERR_DOES_NOT_EXIST") ELSE go("statfs")

\* the host hands worker w one request out of ops; the handler runs up to
\* its first call into the library.  track: what the history records
BeginOp(w, ops, track) ==
    /\ fr[w].pc = "idle"
    /\ \E op \in ops :
         LET d == Dispatch(op)
             f == [StartFrame(op) EXCEPT !.lockFd = fr[w].lockFd,
                     !.alarm = fr[w].alarm]
             pu == parseAfpUrl(op.url)
             h == [NoHistory EXCEPT !.track = track,
                     !.target = <<pu.server, pu.volume>>,
                     !.log = gh[w].log,
                     !.prev = IF track = "pair"
                              THEN [target |-> gh[w].target, connect |-> gh[w].connect,
                                    attach |-> gh[w].attach, clean |-> gh[w].clean]
                              ELSE NoPrev]
         IN /\ rq' = [rq EXCEPT ![w] = op]
            /\ IF d.err = "OK"
               THEN Step(w, m[w], Done(f), Passed,
                         <<[kind |-> "statEntry", synthetic |-> TRUE, name |-> <<>>]>>, h)
               ELSE IF d.err # ""
               THEN Step(w, m[w], Done(f), Failure(d.err, <<>>), <<>>, h)
               ELSE IF d.site = "getvols"
               THEN Step(w, m[w], EnterConnect(f, d.site, FALSE), NoRes, <<>>, h)
               ELSE Step(w, m[w], EnterAttach(f, d.site, FALSE), NoRes, <<>>, h)
    /\ UNCHANGED <<breaker, fs>>

\* the log after the operation worker w has just finished: 1 if it was a
\* successful put of the content tagged "A", 2 if it was a successful put
\* with overwrite of the content tagged "B" right after that one, else 0
Logged(w) ==
    LET put(t) == /\ rq[w].verb = "put" /\ res[w].err = "OK"
                  /\ rq[w].input # <<>> /\ rq[w].input[1].t = t
    IN IF put("A") THEN 1
       ELSE IF gh[w].log = 1 /\ put("B") /\ rq[w].overwrite THEN 2
       ELSE 0

\* the result goes back to the host; the worker waits for the next request
Return(w) ==
    /\ fr[w].pc = "done"
    /\ rq' = [rq EXCEPT ![w] = NoReq]
    /\ Step(w, m[w],
            [IdleFrame EXCEPT !.lockFd = fr[w].lockFd, !.alarm = fr[w].alarm],
            NoRes, <<>>,
            [NoHistory EXCEPT !.track = gh[w].track, !.target = gh[w].target,
               !.connect = gh[w].connect, !.attach = gh[w].attach,
               !.clean = gh[w].clean,
               !.log = IF gh[w].track = "log" THEN Logged(w) ELSE 0])
    /\ UNCHANGED <<breaker, fs>>

\* dispatchLoop returns and kdemain returns 0: the worker object goes away
\* with its session fields; no library call is made
Exit(w) ==
    /\ fr[w].pc = "idle"
    /\ Step(w, m[w], [fr[w] EXCEPT !.pc = "exited"], res[w], out[w], Still(w))
    /\ UNCHANGED <<rq, breaker, fs>>

\* ------------------------------------------------------------------- verbs
\* stat of a volume root: the real entry if the call succeeds, else the
\* synthetic one; never an error
StatVolumeRoot(w) ==
    /\ fr[w].pc = "stat_vroot"
    /\ \E ret \in {OKAY} \cup Faults :
         LET entry(syn) == [kind |-> "statEntry", synthetic |-> syn, name |-> PU(w).volume]
             f1 == [fr[w] EXCEPT !.ret = ret]
             h1 == IF ret \in Recoverable THEN Soil(gh[w]) ELSE gh[w]
         IN IF ret # OKAY /\ isRecoverableSessionError(ret) /\ MayRecover(fr[w].retried)
            THEN Step(w, invalidateSessionState(m[w]),
                      EnterAttach(f1, fr[w].site, TRUE), res[w], out[w],
                      Bump(Recovery(h1), IF m[w].m_serverId # NullId
                               THEN <<"file", "disconnect">> ELSE <<"file">>))
            ELSE Step(w, m[w], Done(f1), Passed, Append(out[w], entry(ret # OKAY)),
                      Bump(h1, <<"file">>))
    /\ UNCHANGED <<rq, breaker, fs>>

\* stat of a path within a volume
StatPath(w) ==
    /\ fr[w].pc = "stat_path"
    /\ \E r \in LibStat(Key(PU(w))) :
         OneShot(w, r.ret, TRUE, Done(fr[w]), Passed,
                 Append(out[w], [kind |-> "statEntry", synthetic |-> FALSE,
                                 name |-> PU(w).path]))
    /\ UNCHANGED <<rq, breaker, fs>>

Mkdir(w) ==
    /\ fr[w].pc = "mkdir"
    /\ \E ret \in LibMkdir(Key(PU(w))) :
         OneShot(w, ret, TRUE, Done(fr[w]), Passed, out[w])
    /\ UNCHANGED <<rq, breaker, fs>>

\* afp_sl_unlink or afp_sl_rmdir, by isFile
Del(w) ==
    /\ fr[w].pc = "del"
    /\ \E ret \in (IF rq[w].isFile THEN LibUnlink(Key(PU(w))) ELSE LibRmdir(Key(PU(w)))) :
         /\ OneShot(w, ret, TRUE, Done(fr[w]), Passed, out[w])
         /\ fs' = IF ret = OKAY /\ rq[w].isFile THEN Unlinked(Key(PU(w))) ELSE fs
    /\ UNCHANGED <<rq, breaker>>

\* rename without Overwrite: stat of the destination, no recovery
RenameCheck(w) ==
    /\ fr[w].pc = "ren_stat"
    /\ \E r \in LibStat(Key(parseAfpUrl(rq[w].dest))) :
         IF r.ret = OKAY
         THEN Step(w, m[w], Done([fr[w] EXCEPT !.ret = r.ret]),
                   Failure("ERR_FILE_ALREADY_EXIST", <<>>),
                   out[w], Bump(gh[w], <<"file">>))
         ELSE Step(w, m[w], Goto([fr[w] EXCEPT !.ret = r.ret], "rename"), res[w], out[w],
                   Bump(gh[w], <<"file">>))
    /\ UNCHANGED <<rq, breaker, fs>>

Rename(w) ==
    /\ fr[w].pc = "rename"
    /\ \E ret \in LibRename(Key(PU(w))) :
         /\ OneShot(w, ret, TRUE, Done(fr[w]), Passed, out[w])
         /\ fs' = IF ret = OKAY
                  THEN Renamed(Key(PU(w)), Key(parseAfpUrl(rq[w].dest))) ELSE fs
    /\ UNCHANGED <<rq, breaker>>

Chmod(w) ==
    /\ fr[w].pc = "chmod"
    /\ \E ret \in LibChmod(Key(PU(w))) :
         OneShot(w, ret, TRUE, Done(fr[w]), Passed, out[w])
    /\ UNCHANGED <<rq, breaker, fs>>

FileSystemFreeSpace(w) ==
    /\ fr[w].pc = "statfs"
    /\ \E ret \in LibStatfs :
         OneShot(w, ret, TRUE, Done(fr[w]), Passed,
                 Append(out[w], [kind |-> "metaData"]))
    /\ UNCHANGED <<rq, breaker, fs>>

\* listDir of a server root: afp_sl_getvols, recovered once
Getvols(w) ==
    /\ fr[w].pc = "getvols"
    /\ \E r \in [ret : {OKAY}, numVols : {0, 1}] \cup [ret : Faults, numVols : {0}] :
         IF r.numVols = 0
         THEN OneShot(w, r.ret, FALSE, Goto(fr[w], "getvols_again"), res[w], out[w])
         ELSE OneShot(w, r.ret, FALSE, Done(fr[w]), Passed,
                      Append(out[w], [kind |-> "listEntries", from |-> 0, n |-> r.numVols]))
    /\ UNCHANGED <<rq, breaker, fs>>

\* the second afp_sl_getvols after an empty list and a delay, not recovered
GetvolsAgain(w) ==
    /\ fr[w].pc = "getvols_again"
    /\ \E r \in [ret : {OKAY}, numVols : {0, 1}] \cup [ret : Faults, numVols : {0}] :
         IF r.ret # OKAY
         THEN Step(w, m[w], Done([fr[w] EXCEPT !.ret = r.ret]),
                   Failure(mapAfpError(r.ret), <<>>), out[w], Bump(gh[w], <<"file">>))
         ELSE Step(w, m[w], Done([fr[w] EXCEPT !.ret = r.ret]), Passed,
                   Append(out[w], [kind |-> "listEntries", from |-> 0, n |-> r.numVols]),
                   Bump(gh[w], <<"file">>))
    /\ UNCHANGED <<rq, breaker, fs>>

DirSizes == {0, 1, BATCH, MaxDirEntries}

\* listDir within a volume: stat of the directory for the "." entry, errors
\* ignored; the directory turns out to hold fr.size entries
ListDirStat(w) ==
    /\ fr[w].pc = "ld_stat"
    /\ \E r \in LibStat(Key(PU(w))), n \in DirSizes :
         Step(w, m[w],
              [Goto(fr[w], "readdir") EXCEPT !.start = 0, !.size = n, !.ret = r.ret],
              res[w],
              IF r.ret = OKAY THEN Append(out[w], [kind |-> "listEntry", name |-> "."])
              ELSE out[w],
              Bump(gh[w], <<"file">>))
    /\ UNCHANGED <<rq, breaker, fs>>

\* what a call asked for want bytes or entries may report as transferred
Counts(want, shorts) ==
    {want} \cup (IF want > 1 /\ shorts < MaxShort THEN {1} ELSE {})

\* start += numFiles, with a loop that advances by whole pages as the variant
NextStartByPage(start, numFiles) == start + BATCH
NextStart(start, numFiles) == start + numFiles

\* one page of afp_sl_readdir, recovered once per page: the library returns
\* the entries [start, start + n), n <= BATCH, possibly fewer than asked
\* for, and may set eod on the page that reaches the end
Readdir(w) ==
    /\ fr[w].pc = "readdir"
    /\ \E n \in Counts(Min(BATCH, fr[w].size - fr[w].start), fr[w].shorts) :
         LET last == fr[w].start + n >= fr[w].size
         IN \E r \in [ret : {OKAY}, eod : IF last THEN BOOLEAN ELSE {FALSE}]
                     \cup [ret : Faults \cup {"ENOENT"}, eod : {FALSE}] :
              OneShot(w, r.ret, TRUE,
                      IF r.eod \/ n = 0 THEN Done(fr[w])
                      ELSE [Goto(fr[w], "readdir") EXCEPT
                              !.start = NextStart(@, n),
                              !.shorts = IF n < Min(BATCH, fr[w].size - fr[w].start)
                                         THEN @ + 1 ELSE @],
                      IF r.eod \/ n = 0 THEN Passed ELSE res[w],
                      Append(out[w], [kind |-> "listEntries", from |-> fr[w].start,
                                      n |-> n, eod |-> r.eod]))
    /\ UNCHANGED <<rq, breaker, fs>>

\* afp_sl_open
LibOpen(k) == (IF File(k) # Absent THEN {OKAY} ELSE {"ENOENT"}) \cup Faults

\* get: stat for the size, totalSize and mimeType
GetStat(w) ==
    /\ fr[w].pc = "get_stat"
    /\ \E r \in LibStat(Key(PU(w))) :
         IF r.dir
         THEN OneShot(w, r.ret, TRUE, Done(fr[w]), Failure("ERR_IS_DIRECTORY", <<>>), out[w])
         ELSE OneShot(w, r.ret, TRUE, Goto(fr[w], "get_open"), res[w],
                      out[w] \o <<[kind |-> "totalSize", n |-> r.size],
                                  [kind |-> "mimeType"]>>)
    /\ UNCHANGED <<rq, breaker, fs>>

GetOpen(w) ==
    /\ fr[w].pc = "get_open"
    /\ \E ret \in LibOpen(Key(PU(w))) :
         OneShot(w, ret, TRUE, [Goto(fr[w], "get_read") EXCEPT !.offset = 0, !.shorts = 0],
                 res[w], out[w])
    /\ UNCHANGED <<rq, breaker, fs>>

EndOnShortRead(eofFlag, received) == eofFlag \/ received < READ_CHUNK

\* if (eofFlag || received == 0) eof = true
EndOfFile(eofFlag, received) == eofFlag \/ received = 0

\* the calls of an error exit of a read or write loop that forgets the file
LeftOpen(calls) == calls

\* the calls of an error exit of a read or write loop: afp_sl_close follows
Closing(calls) == Append(calls, "close")

\* what the host has received when a read fails, with a loop that ends the
\* stream before it returns as the variant
ReadFailedTerminated(o) == Append(o, [kind |-> "data", d |-> <<>>])
ReadFailed(o) == o

\* one pass of the read loop: afp_sl_read of READ_CHUNK bytes at offset,
\* data(), and after the last pass afp_sl_close and the empty data()
GetRead(w) ==
    /\ fr[w].pc = "get_read"
    /\ LET c == IF File(Key(PU(w))) = Absent THEN <<>> ELSE File(Key(PU(w)))
           want == Min(READ_CHUNK, DLen(c) - fr[w].offset)
       IN \/ \E ret \in Faults :
               Step(w, m[w], Done([fr[w] EXCEPT !.ret = ret]),
                    Failure(mapAfpError(ret), <<>>), ReadFailed(out[w]),
                    Bump(gh[w], Closing(<<"file">>)))
          \/ \E received \in Counts(want, fr[w].shorts), eofFlag \in BOOLEAN :
               /\ eofFlag => fr[w].offset + received >= DLen(c)
               /\ LET buf == DTake(DDrop(c, fr[w].offset), received)
                      o1 == IF received > 0
                            THEN Append(out[w], [kind |-> "data", d |-> buf]) ELSE out[w]
                      f1 == [fr[w] EXCEPT !.ret = OKAY, !.offset = @ + received,
                               !.shorts = IF received < want THEN @ + 1 ELSE @]
                  IN IF EndOfFile(eofFlag, received)
                     THEN Step(w, m[w], Done(f1), Passed,
                               Append(o1, [kind |-> "data", d |-> <<>>]),
                               Bump(gh[w], <<"file", "close">>))
                     ELSE Step(w, m[w], f1, res[w], o1, Bump(gh[w], <<"file">>))
    /\ UNCHANGED <<rq, breaker, fs>>

\* afp_sl_creat and afp_sl_truncate(0)
LibCreat(k) == (IF File(k) # Absent THEN {"EXIST"} ELSE {OKAY}) \cup Faults
LibTruncate(k) == (IF File(k) # Absent THEN {OKAY} ELSE {"ENOENT"}) \cup Faults
Emptied(k) == [x \in DOMAIN fs |-> IF x = k THEN <<>> ELSE fs[x]]
Written(k, off, buf) ==
    [x \in DOMAIN fs |-> IF x = k /\ fs[x] # Absent THEN DWrite(fs[x], off, buf) ELSE fs[x]]

\* a put that never refuses an existing file
PutNeverRefused(exists, overwrite) == FALSE

\* the overwrite test after the existence check
PutRefused(exists, overwrite) == exists /\ ~overwrite

\* put: does the file exist?  A stat that fails for good counts as "no".
PutStat(w) ==
    /\ fr[w].pc = "put_stat"
    /\ \E r \in LibStat(Key(PU(w))) :
         LET f1 == [fr[w] EXCEPT !.ret = r.ret, !.exists = (r.ret = OKAY)]
             h1 == IF r.ret \in Recoverable THEN Soil(gh[w]) ELSE gh[w]
             h0 == Bump(h1, <<"file">>)
         IN IF r.ret # OKAY /\ isRecoverableSessionError(r.ret) /\ MayRecover(fr[w].retried)
            THEN Step(w, invalidateSessionState(m[w]),
                      EnterAttach([fr[w] EXCEPT !.ret = r.ret], fr[w].site, TRUE),
                      res[w], out[w],
                      Bump(Recovery(h1), IF m[w].m_serverId # NullId
                               THEN <<"file", "disconnect">> ELSE <<"file">>))
            ELSE IF PutRefused(f1.exists, rq[w].overwrite)
            THEN Step(w, m[w], Done(f1), Failure("ERR_FILE_ALREADY_EXIST", <<>>),
                      out[w], h0)
            ELSE Step(w, m[w],
                      Goto(f1, IF ~f1.exists THEN "put_creat"
                               ELSE IF rq[w].overwrite THEN "put_trunc"
                               ELSE "put_open"),
                      res[w], out[w], h0)
    /\ UNCHANGED <<rq, breaker, fs>>

PutCreat(w) ==
    /\ fr[w].pc = "put_creat"
    /\ \E ret \in LibCreat(Key(PU(w))) :
         /\ OneShot(w, ret, TRUE, Goto(fr[w], "put_open"), res[w], out[w])
         /\ fs' = IF ret = OKAY THEN Emptied(Key(PU(w))) ELSE fs
    /\ UNCHANGED <<rq, breaker>>

\* the truncate to length 0 before an overwrite
PutTruncate(w) ==
    /\ fr[w].pc = "put_trunc"
    /\ \E ret \in LibTruncate(Key(PU(w))) :
         /\ OneShot(w, ret, TRUE, Goto(fr[w], "put_open"), res[w], out[w])
         /\ fs' = IF ret = OKAY THEN Emptied(Key(PU(w))) ELSE fs
    /\ UNCHANGED <<rq, breaker>>

PutOpen(w) ==
    /\ fr[w].pc = "put_open"
    /\ \E ret \in LibOpen(Key(PU(w))) :
         OneShot(w, ret, TRUE,
                 [Goto(fr[w], "put_write") EXCEPT !.offset = 0, !.sent = 0, !.shorts = 0],
                 res[w], out[w])
    /\ UNCHANGED <<rq, breaker, fs>>

\* the buffers the caller may hand over next when left bytes remain
BufferSizes(left) == {left} \cup (IF left > PutSplit THEN {PutSplit} ELSE {})

\* one pass of the write loop: dataReq and readData, then afp_sl_write of
\* the buffer at offset; an empty buffer ends the loop with afp_sl_close
PutWrite(w) ==
    /\ fr[w].pc = "put_write"
    /\ LET k == Key(PU(w))
           left == DLen(rq[w].input) - fr[w].sent
           after == IF rq[w].permissions # -1 THEN Goto(fr[w], "put_chmod")
                    ELSE Done(fr[w])
       IN \/ /\ Step(w, m[w], Done(fr[w]), Failure("ERR_CANNOT_WRITE", <<>>), out[w],
                     Bump(gh[w], Closing(<<>>)))
             /\ fs' = fs
          \/ /\ left = 0
             /\ Step(w, m[w], after,
                     IF rq[w].permissions # -1 THEN res[w] ELSE Passed, out[w],
                     Bump(gh[w], <<"close">>))
             /\ fs' = fs
          \/ /\ left > 0
             /\ \E size \in BufferSizes(left) :
                  LET buf == DTake(DDrop(rq[w].input, fr[w].sent), size)
                  IN \/ \E ret \in Faults :
                          /\ Step(w, m[w], Done([fr[w] EXCEPT !.ret = ret]),
                                  Failure(mapAfpError(ret), <<>>), out[w],
                                  Bump(gh[w], Closing(<<"file">>)))
                          /\ fs' = fs
                     \/ \E written \in Counts(size, fr[w].shorts) :
                          /\ Step(w, m[w],
                                  [fr[w] EXCEPT !.ret = OKAY, !.sent = @ + size,
                                     !.offset = @ + written,
                                     !.shorts = IF written < size THEN @ + 1 ELSE @],
                                  res[w], out[w], Bump(gh[w], <<"file">>))
                          /\ fs' = Written(k, fr[w].offset, DTake(buf, written))
    /\ UNCHANGED <<rq, breaker>>

\* the chmod after the write loop: its result is only logged
PutChmod(w) ==
    /\ fr[w].pc = "put_chmod"
    /\ \E ret \in LibChmod(Key(PU(w))) :
         Step(w, m[w], Done([fr[w] EXCEPT !.ret = ret]), Passed, out[w],
              Bump(gh[w], <<"file">>))
    /\ UNCHANGED <<rq, breaker, fs>>

\* ------------------------------------------------------ the specifications
Root == <<>>
VolV == <<"/", "V">>
VolW == <<"/", "W">>
FileF == <<"/", "V", "/", "f">>
FileG == <<"/", "V", "/", "g">>
FileWF == <<"/", "W", "/", "f">>

UrlsA == {Url("A", TRUE, p) : p \in {Root, VolV, FileF}}
SessionUrls == UrlsA \cup {Url("A", TRUE, FileWF), Url("B", FALSE, FileF)}

\* Spec: one worker, every verb, two servers and two volumes
Ops ==
    {Req("stat", u) : u \in SessionUrls}
    \cup {Req(v, u) : v \in {"listDir", "get", "mkdir", "chmod", "statfs"}, u \in UrlsA}
    \cup {[Req("del", u) EXCEPT !.isFile = b] : u \in UrlsA, b \in BOOLEAN}
    \cup {[Req("put", u) EXCEPT !.overwrite = b, !.input = Bytes("B", 1)] :
            u \in UrlsA, b \in BOOLEAN}
    \cup {[Req("put", Url("A", TRUE, FileF)) EXCEPT !.overwrite = TRUE,
             !.permissions = 420, !.input = Bytes("B", 1)]}
    \cup {Req("stat", [Url("A", TRUE, FileF) EXCEPT !.scheme = "smb"])}
    \cup {[Req("rename", u) EXCEPT !.dest = d, !.overwrite = b] :
            u \in UrlsA,
            d \in {Url("A", FALSE, p) : p \in {VolV, FileG, FileWF}}
                  \cup {Url("B", FALSE, FileG)},
            b \in BOOLEAN}

FileKeys == {Key(parseAfpUrl(Url("A", TRUE, FileF)))}

InitSpec == Init /\ fs = [k \in FileKeys |-> Absent]

Begin(w) == BeginOp(w, Ops, "")

Handler(w) ==
    \/ EcBegin(w) \/ EcCache(w) \/ EcPrompt(w) \/ EcBreaker1(w) \/ EcBreaker2(w)
    \/ EcUnlink(w) \/ EcLock(w) \/ EcConnect(w) \/ EcBackoff(w) \/ EcOk(w)
    \/ EcReprompt(w)
    \/ EaConnected(w) \/ EaAttach(w) \/ EaReattach(w) \/ EaGetvolid(w) \/ EaGetvolid2(w)
    \/ StatVolumeRoot(w) \/ StatPath(w) \/ Getvols(w) \/ GetvolsAgain(w)
    \/ ListDirStat(w) \/ Readdir(w) \/ GetStat(w) \/ GetOpen(w) \/ GetRead(w)
    \/ PutStat(w) \/ PutCreat(w) \/ PutTruncate(w) \/ PutOpen(w) \/ PutWrite(w)
    \/ PutChmod(w) \/ Mkdir(w) \/ Del(w) \/ RenameCheck(w) \/ Rename(w) \/ Chmod(w)
    \/ FileSystemFreeSpace(w)
    \/ Return(w)

Next == Begin("w1") \/ Handler("w1") \/ Tick \/ Exit("w1")

Spec == InitSpec /\ [][Next]_vars

\* SpecPair: one worker, operations on two volumes of one server, with the
\* connect and attach calls of each operation and of the one before counted
PairOps ==
    {Req("stat", Url("A", i, p)) : i \in BOOLEAN, p \in {FileF, FileWF}}
    \cup {Req("mkdir", Url("A", TRUE, FileF))}

BeginPair(w) == BeginOp(w, PairOps, "pair")

PairHandler(w) ==
    \/ EcBegin(w) \/ EcCache(w) \/ EcPrompt(w) \/ EcBreaker1(w) \/ EcBreaker2(w)
    \/ EcUnlink(w) \/ EcLock(w) \/ EcConnect(w) \/ EcBackoff(w) \/ EcOk(w)
    \/ EcReprompt(w)
    \/ EaConnected(w) \/ EaAttach(w) \/ EaReattach(w) \/ EaGetvolid(w) \/ EaGetvolid2(w)
    \/ StatPath(w) \/ Mkdir(w)
    \/ Return(w)

NextPair == BeginPair("w1") \/ PairHandler("w1") \/ Tick

SpecPair == InitSpec /\ [][NextPair]_vars

\* SpecConn: two workers that list the volumes of one server, w1 without and
\* w2 with credentials in the URL; they meet at the lock file and the breaker
\* marker
ConnOps(w) == {Req("listDir", Url("A", w = "w2", Root))}

BeginConn(w) == BeginOp(w, ConnOps(w), "")

ConnHandler(w) ==
    \/ EcBegin(w) \/ EcCache(w) \/ EcPrompt(w) \/ EcBreaker1(w) \/ EcBreaker2(w)
    \/ EcUnlink(w) \/ EcLock(w) \/ EcConnect(w) \/ EcBackoff(w) \/ EcOk(w)
    \/ EcReprompt(w)
    \/ Getvols(w) \/ GetvolsAgain(w)
    \/ Return(w)

NextConn == (\E w \in Procs : BeginConn(w) \/ ConnHandler(w)) \/ Tick

SpecConn == InitSpec /\ [][NextConn]_vars

\* SpecLock: two workers with credentials in their URLs list the volumes of
\* one server, all within the cooldown of any breaker marker they leave; the
\* lock file may fail to open
LockOps == {Req("listDir", Url("A", TRUE, Root))}

BeginLock(w) == BeginOp(w, LockOps, "")

LockHandler(w) ==
    \/ EcBegin(w) \/ EcBreaker1(w) \/ EcBreaker2(w)
    \/ EcLock(w) \/ EcLockFail(w) \/ EcConnect(w) \/ EcBackoff(w)
    \/ EcOk(w) \/ EcReprompt(w)
    \/ Getvols(w) \/ GetvolsAgain(w)
    \/ Return(w)

NextLock == \E w \in Procs : BeginLock(w) \/ LockHandler(w)

SpecLock == InitSpec /\ [][NextLock]_vars

\* SpecLive: the connect procedure of two workers that list the root of
\* server A, up to its return, and every connect call returns; a worker
\* whose procedure failed takes its next request.  A worker that can take a
\* step takes one; a worker blocked in flock gets the lock if it is free
\* again and again; a worker whose credentials are rejected again and again
\* is at some time cancelled by the user or given a result other than the
\* rejection.
LiveHandler(w) ==
    \/ EcBegin(w) \/ EcBreaker1(w) \/ EcBreaker2(w)
    \/ EcLock(w) \/ EcConnect(w) \/ EcBackoff(w)
    \/ EcOk(w) \/ EcReprompt(w)
    \/ Return(w)

NextLive == \E w \in Procs : BeginLock(w) \/ LiveHandler(w)

NotRejected(w) ==
    \/ EcConnect(w) /\ fr'[w].pc # "ec_reprompt"
    \/ EcReprompt(w) /\ fr'[w].pc = "done"

SpecLive ==
    /\ InitSpec /\ [][NextLive]_vars
    /\ \A w \in Procs :
          /\ WF_vars(LiveHandler(w))
          /\ SF_vars(EcLock(w))
          /\ SF_vars(NotRejected(w))

\* SpecAlarm: two workers list the root of server A; a connect call may
\* never return.  The kernel delivers a pending alarm and wakes a worker
\* blocked in flock once the lock is free.
AlarmHandler(w) ==
    \/ EcBegin(w) \/ EcBreaker1(w) \/ EcBreaker2(w)
    \/ EcLock(w) \/ EcConnect(w) \/ EcConnectHang(w) \/ EcBackoff(w)
    \/ EcOk(w) \/ EcReprompt(w)
    \/ Getvols(w) \/ GetvolsAgain(w)
    \/ Return(w)
    \/ Sigalrm(w)

NextAlarm == \E w \in Procs : BeginLock(w) \/ AlarmHandler(w)

SpecAlarm ==
    /\ InitSpec /\ [][NextAlarm]_vars
    /\ \A w \in Procs : WF_vars(Sigalrm(w)) /\ WF_vars(EcLock(w))

\* SpecData: one worker uploads content A, uploads the shorter content B
\* and downloads, in any order, on one path
ContentA == Bytes("A", LenA)
ContentB == Bytes("B", LenB)

DataOps ==
    {[Req("put", Url("A", TRUE, FileF)) EXCEPT !.overwrite = b, !.input = ContentA] :
        b \in BOOLEAN}
    \cup {[Req("put", Url("A", TRUE, FileF)) EXCEPT !.overwrite = TRUE,
             !.input = ContentB]}
    \cup {Req("get", Url("A", TRUE, FileF))}

BeginData(w) == BeginOp(w, DataOps, "log")

DataHandler(w) ==
    \/ EcBegin(w) \/ EcBreaker1(w) \/ EcBreaker2(w)
    \/ EcUnlink(w) \/ EcLock(w) \/ EcConnect(w) \/ EcBackoff(w) \/ EcOk(w)
    \/ EcReprompt(w)
    \/ EaConnected(w) \/ EaAttach(w) \/ EaReattach(w) \/ EaGetvolid(w) \/ EaGetvolid2(w)
    \/ GetStat(w) \/ GetOpen(w) \/ GetRead(w)
    \/ PutStat(w) \/ PutCreat(w) \/ PutTruncate(w) \/ PutOpen(w) \/ PutWrite(w)
    \/ Return(w)

NextData == BeginData("w1") \/ DataHandler("w1") \/ Tick

SpecData == InitSpec /\ [][NextData]_vars

\* SpecUrl: one worker is asked to rename between two servers, for every
\* source path of up to MaxPathLen characters; the handler parses both URLs
\* and returns
PathChars == {"/", "V", "a"}

\* the paths a URL with a host can have: empty, or a slash and more
Paths ==
    {<<>>} \cup
    UNION {{<<"/">> \o s : s \in [1..n -> PathChars]} : n \in 0..(MaxPathLen - 1)}

UrlOps ==
    {[Req("rename", Url("A", TRUE, p)) EXCEPT !.dest = Url("B", FALSE, q)] :
        p \in Paths, q \in {Root, FileG}}

BeginUrl(w) == BeginOp(w, UrlOps, "")

NextUrl == BeginUrl("w1") \/ Return("w1")

SpecUrl == InitSpec /\ [][NextUrl]_vars

\* ------------------------------------------------------------------ claims
PD(w) == parseAfpUrl(rq[w].dest)

\* the positions of a handler inside ensureConnected, from the credential
\* lookup to the end of the connect loop
ConnectPcs ==
    {"ec_cache", "ec_prompt", "ec_brk1", "ec_unlink1", "ec_lock", "ec_brk2",
     "ec_unlink2", "ec_connect", "ec_backoff", "ec_reprompt", "ec_relock", "ec_ok"}

\* the positions from which a connect or attach call can follow without a
\* new request
EstablishPcs ==
    ConnectPcs \cup {"ec_begin", "ea_connected", "ea_attach", "ea_getvolid",
                     "ea_reattach", "ea_getvolid2"}

\* the call sites of the verbs whose first result is tested with
\* isRecoverableSessionError
RecoveredSites ==
    {"stat_vroot", "stat_path", "getvols", "readdir", "get_stat", "get_open",
     "put_stat", "put_creat", "put_trunc", "put_open", "mkdir", "del", "rename",
     "chmod", "statfs"}

\* every site at which a verb calls the library on the established session
FileSites ==
    RecoveredSites \cup {"ld_stat", "getvols_again", "ren_stat", "get_read",
                         "put_write", "put_chmod"}

SuccessCodes == {"OKAY", "ALREADY_CONNECTED", "ALREADY_MOUNTED", "ALREADY_ATTACHED"}

\* worker w starts serving a request in this step
Starts(w) == fr[w].pc = "idle" /\ fr'[w].pc # "idle"

\* C9: del of a server root or volume root fails with access-denied, rename
\* with a source or destination that has no path inside a volume fails with
\* unsupported; the handler returns in the step that starts it, having made no
\* library call and with the session cache as it was.
C9_RootRejection ==
    [][\A w \in Procs :
         /\ (Starts(w) /\ rq'[w].verb = "del" /\ ~parseAfpUrl(rq'[w].url).hasPath)
              => /\ fr'[w].pc = "done"
                 /\ res'[w].err = "ERR_ACCESS_DENIED"
                 /\ gh'[w].did = {} /\ m'[w] = m[w] /\ out'[w] = <<>>
         /\ (Starts(w) /\ rq'[w].verb = "rename"
               /\ (~parseAfpUrl(rq'[w].url).hasPath \/ ~parseAfpUrl(rq'[w].dest).hasPath))
              => /\ fr'[w].pc = "done"
                 /\ res'[w].err = "ERR_UNSUPPORTED_ACTION"
                 /\ gh'[w].did = {} /\ m'[w] = m[w] /\ out'[w] = <<>>]_vars

\* a del of a volume root was rejected while a volume was attached
C9_Witness ==
    \E w \in Procs :
        /\ rq[w].verb = "del" /\ PU(w).hasVolume /\ ~PU(w).hasPath
        /\ fr[w].pc = "done" /\ res[w].err = "ERR_ACCESS_DENIED"
        /\ m[w].m_volumeId # NullId

\* C10: a rename whose source and destination differ in server or in volume
\* fails with unsupported in the step that starts it, before any library call.
C10_CrossVolumeRename ==
    [][\A w \in Procs :
         (Starts(w) /\ rq'[w].verb = "rename"
            /\ (parseAfpUrl(rq'[w].url).server # parseAfpUrl(rq'[w].dest).server
                \/ parseAfpUrl(rq'[w].url).volume # parseAfpUrl(rq'[w].dest).volume))
           => /\ fr'[w].pc = "done"
              /\ res'[w].err = "ERR_UNSUPPORTED_ACTION"
              /\ gh'[w].did = {} /\ m'[w] = m[w]]_vars

\* a rename between two volumes of one server, both ends with a path, was
\* rejected
C10_Witness ==
    \E w \in Procs :
        /\ rq[w].verb = "rename" /\ PU(w).hasPath /\ PD(w).hasPath
        /\ PU(w).server = PD(w).server /\ PU(w).volume # PD(w).volume
        /\ fr[w].pc = "done" /\ res[w].err = "ERR_UNSUPPORTED_ACTION"

\* the credentials c were obtained for server a
CredOf(c, a) == c # NoCred /\ c[2] = a

\* nothing in the session cache s belongs to server a
NothingOf(s, a) ==
    /\ s.m_serverId # <<a>> /\ s.m_cachedServer # a
    /\ ~CredOf(s.m_cachedUser, a) /\ ~CredOf(s.m_cachedPass, a)
    /\ (s.m_volumeId # NullId => s.m_volumeId[1] # a)

\* C2: once ensureConnected has found the worker connected to a server A
\* other than the target B, the session cache is empty (server handle, server
\* name, user name, password, volume handle and volume name) at every later
\* position of the connect procedure, the disconnect was part of the entry
\* step, the credentials in use are none of A's, and whatever the cache holds
\* afterwards belongs to B.
C2_ServerSwitch ==
    \A w \in Procs :
        gh[w].switchedFrom # "" =>
            /\ gh[w].switchedFrom # PU(w).server
            /\ NothingOf(m[w], gh[w].switchedFrom)
            /\ fr[w].pc \in ConnectPcs =>
                 /\ m[w] = EmptySession(TRUE)
                 /\ ~CredOf(fr[w].username, gh[w].switchedFrom)
                 /\ ~CredOf(fr[w].password, gh[w].switchedFrom)
            /\ fr[w].pc = "ec_cache" => "disconnect" \in gh[w].did
            /\ fr[w].pc \in {"ec_connect", "ec_ok"} =>
                 CredOf(fr[w].username, PU(w).server) /\ CredOf(fr[w].password, PU(w).server)
            /\ Connected(m[w]) =>
                 /\ m[w].m_serverId = <<PU(w).server>>
                 /\ m[w].m_cachedServer = PU(w).server
                 /\ CredOf(m[w].m_cachedUser, PU(w).server)
                 /\ CredOf(m[w].m_cachedPass, PU(w).server)

\* a worker that was attached on server A is about to call connect for B
C2_Witness ==
    \E w \in Procs :
        /\ gh[w].switchedFrom = "A" /\ PU(w).server = "B"
        /\ fr[w].pc = "ec_connect"

\* worker w gets a result from the library at one of the sites in sites
Returns(w, sites, codes) ==
    /\ fr[w].pc \in sites
    /\ "file" \in gh'[w].did
    /\ fr'[w].ret \in codes

C6_AsStated ==
    [][\A w \in Procs :
         (/\ gh'[w].did \cap {"connect", "attach", "getvolid", "file"} # {}
          /\ fr'[w].ret \notin Recoverable \cup SuccessCodes)
           => /\ m'[w] = m[w]
              /\ "disconnect" \notin gh'[w].did
              /\ fr'[w].pc \notin EstablishPcs]_vars

\* C6, amended: a call that a verb makes on the established session and that
\* returns a non-recoverable failure leaves every field of the session cache
\* unchanged and is followed by no disconnect, connect or attach: the handler
\* returns or moves on to its next file call.  (The calls of the connect and
\* attach procedures are answered differently: a rejected or failed connect
\* is repeated, a failed volume-handle query disconnects and reconnects.)
C6_NoReconnectOnFatal ==
    [][\A w \in Procs :
         Returns(w, FileSites, {"ENOENT", "ACCESS", "EXIST", "NOVOLUME", "NOTSUPPORTED"})
           => /\ m'[w] = m[w]
              /\ gh'[w].did \subseteq {"file", "close"}
              /\ fr'[w].pc \in FileSites \cup {"done"}]_vars

\* mkdir was refused with access-denied on an attached volume
C6_Witness ==
    \E w \in Procs :
        /\ rq[w].verb = "mkdir" /\ fr[w].pc = "done" /\ fr[w].ret = "ACCESS"
        /\ res[w].err = "ERR_ACCESS_DENIED"
        /\ m[w].m_volumeId # NullId

FailedFast(w) ==
    /\ fr[w].pc = "done"
    /\ res[w].err = "ERR_CANNOT_CONNECT"
    /\ res[w].msg # <<>>

\* C3: a connect attempt that begins while the breaker marker is younger than
\* the cooldown never calls connect and, when it ends, has failed with
\* connect-failed.
C3_AsStated ==
    \A w \in Procs :
        gh[w].freshAtBegin =>
            /\ "connect" \notin gh[w].did
            /\ fr[w].pc = "done" => res[w].err = "ERR_CANNOT_CONNECT"

\* worker w takes a step
Moves(w) == fr'[w] # fr[w]

Expired == breaker # NoBreaker /\ breaker >= BREAKER_COOLDOWN_SECS

\* C4 as stated: an attempt that has observed a marker at least as old as the
\* cooldown is not failed fast; the marker is removed at that check; after
\* the success branch of a connect no marker exists.
C4_AsStated ==
    [][\A w \in Procs :
         /\ gh'[w].sawExpired => ~FailedFast(w)'
         /\ (fr[w].pc \in {"ec_unlink1", "ec_unlink2"} /\ Moves(w))
              => breaker' = NoBreaker
         /\ (fr[w].pc = "ec_ok" /\ Moves(w)) => breaker' = NoBreaker]_vars

\* C4, amended: a breaker check that finds a marker at least as old as the
\* cooldown does not fail; the marker is removed next; the attempt goes on to
\* the connect call, except that an attempt which found the old marker before
\* taking the lock is failed fast by the check after the lock when that check
\* finds a marker younger than the cooldown (written meanwhile by a sibling);
\* after the success branch of a connect no marker exists.
C4_BreakerExpiry ==
    [][\A w \in Procs :
         /\ (fr[w].pc \in {"ec_brk1", "ec_brk2"} /\ Expired /\ Moves(w))
              => fr'[w].pc = (IF fr[w].pc = "ec_brk1" THEN "ec_unlink1" ELSE "ec_unlink2")
         /\ (fr[w].pc \in {"ec_unlink1", "ec_unlink2"} /\ Moves(w))
              => /\ breaker' = NoBreaker
                 /\ fr'[w].pc = (IF fr[w].pc = "ec_unlink1" THEN "ec_lock" ELSE "ec_connect")
         /\ (gh[w].sawExpired /\ fr[w].pc \in {"ec_lock", "ec_brk2"} /\ Moves(w))
              => \/ fr'[w].pc \in {"ec_brk2", "ec_unlink2", "ec_connect"}
                 \/ /\ fr[w].pc = "ec_brk2" /\ BreakerActive
                    /\ FailedFast(w)'
         /\ (fr[w].pc = "ec_ok" /\ Moves(w))
              => breaker' = NoBreaker /\ Connected(m'[w])]_vars

\* a worker that had found an old marker is connected, and no marker exists
C4_Witness ==
    \E w \in Procs :
        /\ gh[w].sawExpired /\ fr[w].pc = "getvols"
        /\ Connected(m[w]) /\ breaker = NoBreaker

\* the concatenation of the data emissions in o, in order
RECURSIVE Payload(_)
Payload(o) ==
    IF o = <<>> THEN <<>>
    ELSE IF Head(o).kind = "data" THEN DCat(Head(o).d, Payload(Tail(o)))
    ELSE Payload(Tail(o))

\* worker w has served a get and reported success
GetDone(w) == rq[w].verb = "get" /\ fr[w].pc = "done" /\ res[w].err = "OK"

\* C7: a successful put of content A, then a successful put with overwrite of
\* the shorter content B to the same path, then a successful get of the path:
\* the get announces the length of B and delivers exactly B.
C7_AsStated ==
    \A w \in Procs :
        (gh[w].log = 2 /\ GetDone(w))
          => /\ out[w][1] = [kind |-> "totalSize", n |-> LenB]
             /\ Payload(out[w]) = ContentB

\* C8: a successful get of a file of N bytes emits the total size N, the MIME
\* type, then data chunks of 1..READ_CHUNK bytes whose concatenation is the
\* content of the file (so their lengths sum to N), then one empty data
\* emission, which is the last.
C8_GetStreams ==
    \A w \in Procs :
        GetDone(w) =>
            LET o == out[w]
                c == File(Key(PU(w)))
            IN /\ c # Absent
               /\ Len(o) >= 3
               /\ o[1] = [kind |-> "totalSize", n |-> DLen(c)]
               /\ o[2] = [kind |-> "mimeType"]
               /\ o[Len(o)] = [kind |-> "data", d |-> <<>>]
               /\ \A i \in 3..(Len(o) - 1) :
                    /\ o[i].kind = "data"
                    /\ DLen(o[i].d) \in 1..READ_CHUNK
               /\ Payload(o) = c
               /\ DLen(Payload(o)) = DLen(c)

\* a file longer than one chunk has been delivered in three chunks, one of
\* them a short read
C8_Witness ==
    \E w \in Procs :
        /\ GetDone(w)
        /\ DLen(File(Key(PU(w)))) > READ_CHUNK
        /\ Len(out[w]) = 6
        /\ \E i \in 3..5 : DLen(out[w][i].d) = 1

\* the positions in the string s at which a segment starts: a character other
\* than the slash, first of s or after a slash
SegStarts(s) ==
    {i \in 1..Len(s) : s[i] # "/" /\ (i = 1 \/ s[i - 1] = "/")}

\* the segment of s that starts at position i
SegAt(s, i) ==
    LET stop == CHOOSE j \in i..Len(s) :
                    /\ \A k \in i..j : s[k] # "/"
                    /\ (j = Len(s) \/ s[j + 1] = "/")
    IN SubSeq(s, i, stop)

\* the non-empty segments of s, in order
Segments(s) ==
    [k \in 1..Cardinality(SegStarts(s)) |->
        SegAt(s, CHOOSE i \in SegStarts(s) :
                     Cardinality({j \in SegStarts(s) : j < i}) = k - 1)]

\* pu is the decomposition of url that the specification describes
Decomposed(url, pu) ==
    LET segs == Segments(url.path)
    IN /\ pu.server = url.host
       /\ pu.hasPath => pu.hasVolume
       /\ pu.hasVolume <=> Len(segs) >= 1
       /\ pu.hasPath <=> Len(segs) >= 2
       /\ Len(segs) = 0 => pu.volume = <<>> /\ pu.path = <<>> /\ pu.afpPath = <<>>
       /\ Len(segs) >= 1 => pu.volume = segs[1]
       /\ Len(segs) = 1 => pu.path = <<>> /\ pu.afpPath = <<"/">>
       /\ Len(segs) >= 2 =>
            /\ Segments(pu.path) = Tail(segs)
            /\ pu.path[1] # "/" /\ pu.path[Len(pu.path)] # "/"
            /\ \A i \in 1..(Len(pu.path) - 1) : ~(pu.path[i] = "/" /\ pu.path[i + 1] = "/")
            /\ pu.afpPath = <<"/">> \o pu.path

\* C11: for every URL a verb is handed, the first non-empty segment of the
\* path is the volume and the other non-empty segments, joined by single
\* slashes, are the path in the volume; one segment: volume root, no path,
\* library path "/"; no segment: no volume; hasPath implies hasVolume.
C11_Decomposition ==
    \A w \in Procs :
        rq[w].verb # "none" =>
            /\ Decomposed(rq[w].url, PU(w))
            /\ Decomposed(rq[w].dest, PD(w))

\* /V/a/a has been decomposed into the volume V and the path a/a
C11_Witness ==
    \E w \in Procs :
        /\ rq[w].verb = "rename" /\ fr[w].pc = "done"
        /\ rq[w].url.path = <<"/", "V", "/", "a", "/", "a">>
        /\ PU(w).volume = <<"V">> /\ PU(w).path = <<"a", "/", "a">>
        /\ PU(w).afpPath = <<"/", "a", "/", "a">>

\* C12: a request whose URL has another scheme than afp ends with
\* unsupported-action and makes no connect or attach call.
C12_AsStated ==
    \A w \in Procs :
        (rq[w].verb # "none" /\ rq[w].url.scheme # "afp") =>
            /\ gh[w].did \cap {"connect", "attach"} = {}
            /\ fr[w].pc = "done" => res[w].err = "ERR_UNSUPPORTED_ACTION"

\* C13: when the existence check of a put answers that the path exists and
\* the request does not carry the overwrite flag, that step ends the put with
\* already-exists: the handler is at its end, where no create, truncate, open,
\* write or chmod call remains, and the remote file is as it was.
C13_PutWithoutOverwrite ==
    [][\A w \in Procs :
          (/\ rq[w].verb = "put" /\ fr[w].pc = "put_stat"
           /\ fr'[w].pc # "put_stat" /\ fr'[w].pc \notin EstablishPcs
           /\ fr'[w].ret = OKAY /\ ~rq[w].overwrite)
          => /\ fr'[w].pc = "done"
             /\ res'[w].err = "ERR_FILE_ALREADY_EXIST"
             /\ fs' = fs]_vars

\* a put without the overwrite flag was refused and the file it found is
\* still there with its content
C13_Witness ==
    \E w \in Procs :
        /\ rq[w].verb = "put" /\ ~rq[w].overwrite /\ fr[w].pc = "done"
        /\ res[w].err = "ERR_FILE_ALREADY_EXIST" /\ fr[w].ret = OKAY
        /\ File(Key(PU(w))) # Absent /\ File(Key(PU(w))) = ContentA

\* C14: whenever a put has returned success, the remote file holds exactly the
\* bytes the caller supplied, in order, whatever counts the write calls
\* reported as written.
C14_AsStated ==
    \A w \in Procs :
        (rq[w].verb = "put" /\ fr[w].pc = "done" /\ res[w].err = "OK")
          => File(Key(PU(w))) # Absent /\ File(Key(PU(w))) = rq[w].input

\* worker w has an authentication dialog open: the one before the first
\* connect or the one after a rejected connect
Prompting(w) == fr[w].pc \in {"ec_prompt", "ec_reprompt"}

\* C15: a worker with an authentication dialog open does not hold the connect
\* lock, so the lock is free for a sibling unless a third worker holds it.
C15_NoLockAcrossPrompts ==
    \A w \in Procs :
        Prompting(w) =>
            /\ ~fr[w].lockFd
            /\ \A v \in Procs \ {w} :
                  (\A u \in Procs \ {w, v} : ~fr[u].lockFd) => LockFree(v)

\* a worker is asked again for credentials after a rejected connect while its
\* sibling, holding the lock, is about to connect
C15_Witness ==
    \E w \in Procs, v \in Procs :
        /\ w # v
        /\ fr[w].pc = "ec_reprompt" /\ fr[w].ret = "NOAUTHENT"
        /\ fr[v].pc = "ec_connect" /\ fr[v].lockFd

\* the results of the connect call that are neither success nor a rejection
\* of the credentials
Transient == {"DAEMON_ERROR", "NOSERVER", "TIMEDOUT"}

\* C16: in one run of the connect procedure the count of retries never
\* exceeds MAX_CONNECT_RETRIES and each backoff adds one to it; a transient
\* result with fewer retries behind it leads to a backoff and another connect;
\* a transient result after MAX_CONNECT_RETRIES retries ends the procedure
\* with the mapped failure and leaves a breaker marker.
C16_RetryCeiling ==
    [][\A w \in Procs :
          /\ fr[w].transientRetries <= MAX_CONNECT_RETRIES
          /\ (fr[w].pc = "ec_backoff" /\ fr'[w] # fr[w])
               => /\ fr'[w].pc = "ec_connect"
                  /\ fr'[w].transientRetries = fr[w].transientRetries + 1
          /\ (fr[w].pc = "ec_connect" /\ fr'[w] # fr[w] /\ fr'[w].ret \in Transient)
               => IF fr[w].transientRetries < MAX_CONNECT_RETRIES
                  THEN fr'[w].pc = "ec_backoff" /\ breaker' = breaker
                  ELSE /\ fr'[w].pc = "done"
                       /\ ~IsVolumeRootStat(w)
                            => res'[w].err = mapAfpConnectError(fr'[w].ret)
                       /\ breaker' # NoBreaker]_vars

\* the connect call has failed for the fourth time in one run: the breaker
\* marker is there and the operation has failed
C16_Witness ==
    \E w \in Procs :
        /\ fr[w].pc = "done" /\ fr[w].ret = "TIMEDOUT"
        /\ gh[w].did = {"connect"}
        /\ res[w].err = "ERR_SERVER_TIMEOUT"
        /\ breaker = 0

\* C17: for every verb other than stat, when the call re-issued after a
\* recovery fails as well, the operation ends there with the mapped error of
\* that second result.
C17_AsStated ==
    [][\A w \in Procs :
          (/\ rq[w].verb # "stat"
           /\ fr[w].retried
           /\ Returns(w, RecoveredSites, Recoverable \cup
                   {"ENOENT", "ACCESS", "EXIST", "NOVOLUME", "NOTSUPPORTED"}))
          => /\ fr'[w].pc = "done"
             /\ res'[w].err = mapAfpError(fr'[w].ret)]_vars

\* C18: the call that persists credentials is made only in the success branch
\* of a connect procedure: the session is established by that step, the
\* credentials it stores came from the dialog, and the user asked to keep
\* them.  No other step makes the call.
C18_PersistOnlyAfterDialog ==
    [][\A w \in Procs :
          (fr'[w] # fr[w] /\ "persist" \in gh'[w].did)
            => /\ fr[w].pc = "ec_ok"
               /\ ~Connected(m[w]) /\ Connected(m'[w])
               /\ fr[w].dialogUsed /\ fr[w].keepPassword
               /\ m'[w].m_cachedUser = <<"dlg", PU(w).server>>
               /\ m'[w].m_cachedPass = <<"dlg", PU(w).server>>]_vars

\* a worker whose URL carries credentials that the server rejected has
\* connected with credentials from the dialog and persisted them
C18_Witness ==
    \E w \in Procs :
        /\ "persist" \in gh[w].did
        /\ rq[w].url.user # NoCred
        /\ m[w].m_cachedUser = <<"dlg", PU(w).server>>

\* C19: a worker that leaves its dispatch loop and exits while it holds a
\* server session issues a disconnect of that session on the way out.
C19_AsStated ==
    [][\A w \in Procs :
          (fr[w].pc = "idle" /\ fr'[w].pc = "exited" /\ Connected(m[w]))
            => "disconnect" \in gh'[w].did]_vars

\* worker w is at the connect call or in the sleep before a retry
Connecting(w) == fr[w].pc \in {"ec_connect", "ec_backoff"}

\* C20: at most one worker at a time is at the connect call or in a backoff
\* sleep, and every worker that is there holds the connect lock.
C20_AsStated ==
    /\ \A w \in Procs : Connecting(w) => fr[w].lockFd
    /\ \A w \in Procs, v \in Procs : (Connecting(w) /\ Connecting(v)) => w = v

\* worker w gets the transient result that exhausts the retry ceiling
Exhausts(w) ==
    /\ fr[w].pc = "ec_connect" /\ fr'[w].pc = "done"
    /\ fr[w].transientRetries = MAX_CONNECT_RETRIES
    /\ fr'[w].ret \in Transient

\* C21: whenever a worker exhausts the retry ceiling, the breaker marker is
\* there afterwards with age zero, whether or not a marker existed before.
C21_AsStated ==
    [][\A w \in Procs : Exhausts(w) => breaker' = 0]_vars

\* C22: a breaker marker younger than the cooldown is removed only by the
\* success branch of a connect; the unlink of an expiry check never removes
\* a marker that is younger than the cooldown at that moment.
C22_AsStated ==
    [][(BreakerActive /\ breaker' = NoBreaker)
         => \E w \in Procs : fr[w].pc = "ec_ok" /\ fr'[w].pc # "ec_ok"]_vars

\* C23: the server handle is cached if and only if the server name is, in
\* every state; a connect that reports success without a handle is taken as
\* a daemon error: it leaves the session cache alone and leads to a backoff
\* or, at the retry ceiling, to the end of the procedure.
C23_HandleIffName ==
    [][\A w \in Procs :
          /\ (m'[w].m_serverId # NullId) <=> (m'[w].m_cachedServer # "")
          /\ (fr'[w] # fr[w] /\ "nohandle" \in gh'[w].did)
               => /\ fr'[w].ret = "DAEMON_ERROR"
                  /\ m'[w] = m[w]
                  /\ fr'[w].pc = IF fr[w].transientRetries < MAX_CONNECT_RETRIES
                                 THEN "ec_backoff" ELSE "done"]_vars

\* the library has reported success without a handle to a worker that holds
\* no session, and the worker is in the backoff before its next attempt
C23_Witness ==
    \E w \in Procs :
        /\ "nohandle" \in gh[w].did
        /\ m[w].m_connSetupDone /\ m[w].m_serverId = NullId /\ m[w].m_cachedServer = ""
        /\ fr[w].pc = "ec_backoff" /\ fr[w].ret = "DAEMON_ERROR"

\* C24: a rejected connect leads to the re-prompt, and an answered re-prompt
\* to the lock and another connect, with the count of transient retries and
\* the breaker marker as they were; a cancelled prompt ends the procedure
\* with user-cancelled, without the lock and with an empty session cache.
C24_AsStated ==
    [][\A w \in Procs :
          /\ (fr[w].pc = "ec_connect" /\ fr'[w] # fr[w] /\ fr'[w].ret = "NOAUTHENT")
               => /\ fr'[w].pc = "ec_reprompt"
                  /\ fr'[w].transientRetries = fr[w].transientRetries
                  /\ breaker' = breaker
          /\ (fr[w].pc \in {"ec_reprompt", "ec_relock"} /\ fr'[w].pc # "done"
                 /\ fr'[w] # fr[w])
               => /\ fr'[w].pc = IF fr[w].pc = "ec_reprompt" THEN "ec_relock"
                                 ELSE "ec_connect"
                  /\ fr'[w].transientRetries = fr[w].transientRetries
                  /\ breaker' = breaker
          /\ (fr[w].pc \in {"ec_prompt", "ec_reprompt"} /\ fr'[w].pc = "done")
               => /\ ~IsVolumeRootStat(w) => res'[w].err = "ERR_USER_CANCELED"
                  /\ ~fr'[w].lockFd
                  /\ breaker' = breaker
                  /\ m'[w] = EmptySession(TRUE)]_vars

\* C25: when the operation targets another volume of the connected server
\* than the one attached, the step after the connect procedure clears the
\* volume handle and the volume name, makes no library call, leaves the
\* server handle, the server name and the credentials as they are, and goes
\* on to the attach call.
C25_VolumeSwitch ==
    [][\A w \in Procs :
          (/\ fr[w].pc = "ea_connected" /\ fr'[w] # fr[w]
           /\ m[w].m_volumeId # NullId /\ m[w].m_cachedVolume # PU(w).volume)
          => /\ m'[w].m_volumeId = NullId /\ m'[w].m_cachedVolume = <<>>
             /\ m'[w].m_serverId = m[w].m_serverId /\ m'[w].m_serverId # NullId
             /\ m'[w].m_cachedServer = m[w].m_cachedServer
             /\ m'[w].m_cachedUser = m[w].m_cachedUser
             /\ m'[w].m_cachedPass = m[w].m_cachedPass
             /\ gh'[w].did = {}
             /\ fr'[w].pc = "ea_attach"]_vars

\* after a clean operation on volume V the worker, asked for volume W of the
\* same server, stands before the attach call with the server session kept
\* and no call made
C25_Witness ==
    \E w \in Procs :
        /\ gh[w].track = "pair"
        /\ gh[w].prev.target = <<"A", <<"V">>>> /\ gh[w].target = <<"A", <<"W">>>>
        /\ gh[w].prev.clean /\ gh[w].prev.attach = 1
        /\ gh[w].clean /\ gh[w].connect = 0 /\ gh[w].attach = 0
        /\ fr[w].pc = "ea_attach"
        /\ Connected(m[w]) /\ m[w].m_volumeId = NullId
        /\ m[w].m_cachedUser # NoCred

\* how far a run of the attach procedure has come: 1 before the first attach
\* call, 2 before the first volume query, 3 in the reconnect after the reset,
\* 4 before the second attach call, 5 before the second volume query; 0
\* before and after these
AttachStage(f) ==
    CASE f.pc = "ea_attach" -> 1
      [] f.pc = "ea_getvolid" -> 2
      [] f.pc \in ConnectPcs \cup {"ec_begin"} /\ f.ecRet = "ea_reset" -> 3
      [] f.pc = "ea_reattach" -> 4
      [] f.pc = "ea_getvolid2" -> 5
      [] OTHER -> 0

\* C26: a run of the attach procedure only moves forward through its stages,
\* each of which makes its one call: attach at stages 1 and 4, the volume
\* query at 2 and 5, the disconnect with the reconnect at the failure of
\* stage 2 only.  So a run makes at most two attach calls, two volume
\* queries and one reset, and a failure at stage 4 or 5 ends the run with the
\* mapped error and the session cache untouched.
C26_BoundedAttach ==
    [][\A w \in Procs :
          fr'[w] # fr[w] =>
            LET s == AttachStage(fr[w])
                t == AttachStage(fr'[w])
            IN /\ "attach" \in gh'[w].did => s \in {1, 4}
               /\ "getvolid" \in gh'[w].did => s \in {2, 5}
               /\ (s >= 1 /\ "disconnect" \in gh'[w].did) => s = 2 /\ t = 3
               /\ (s >= 1 /\ t >= 1) => t > s \/ (s = 3 /\ t = 3)
               /\ (s >= 1 /\ t = 0) => fr'[w].pc \in {"done", fr[w].site}
               /\ (s \in {4, 5} /\ fr'[w].pc = "done")
                    => /\ m'[w] = m[w]
                       /\ ~IsVolumeRootStat(w)
                            => res'[w].err = mapAfpError(fr'[w].ret)]_vars

\* the volume query after the reset has failed as well and the operation has
\* ended with its error, the new server session kept
C26_Witness ==
    \E w \in Procs :
        /\ fr[w].pc = "done" /\ fr[w].ret = "ENOENT"
        /\ gh[w].did = {"getvolid"}
        /\ res[w].err = mapAfpError("ENOENT")
        /\ Connected(m[w]) /\ m[w].m_volumeId = NullId

\* the step of worker w clears the server handle or the volume handle
Regresses(w) ==
    \/ m[w].m_serverId # NullId /\ m'[w].m_serverId = NullId
    \/ m[w].m_volumeId # NullId /\ m'[w].m_volumeId = NullId

\* the step is the invalidation that follows a recoverable code of a call
Invalidates(w) ==
    /\ fr[w].pc \in RecoveredSites /\ ~fr[w].retried
    /\ "file" \in gh'[w].did /\ fr'[w].ret \in Recoverable
    /\ m'[w] = EmptySession(TRUE) /\ fr'[w].pc = "ec_begin"

\* the step is the switch to the server of the request, another than the
\* one connected
SwitchesServer(w) ==
    /\ fr[w].pc = "ec_begin" /\ m[w].m_cachedServer # PU(w).server
    /\ m'[w] = EmptySession(TRUE)

\* the step is the switch to the volume of the request, another than the
\* one attached
SwitchesVolume(w) ==
    /\ fr[w].pc = "ea_connected" /\ m[w].m_cachedVolume # PU(w).volume
    /\ m'[w].m_serverId = m[w].m_serverId

\* the step is the reset of the server session after a failed volume query
\* in the attach procedure
ResetsAfterQuery(w) ==
    /\ fr[w].pc = "ea_getvolid" /\ "getvolid" \in gh'[w].did /\ fr'[w].ret # OKAY
    /\ m[w].m_volumeId = NullId
    /\ fr'[w].pc = "ec_begin" /\ fr'[w].ecRet = "ea_reset"

\* C27 as stated: a step clears the server handle or the volume handle only
\* as the invalidation after a recoverable code or as the switch to another
\* server or volume.
C27_AsStated ==
    [][\A w \in Procs :
          Regresses(w) => Invalidates(w) \/ SwitchesServer(w) \/ SwitchesVolume(w)]_vars

\* C27, amended: a step clears the server handle or the volume handle only
\* as the invalidation after a recoverable code, as the switch to another
\* server or volume, or as the reset of the server session that follows a
\* failed volume query in the attach procedure (whatever the code of the
\* failure).
C27_NoSpontaneousRegression ==
    [][\A w \in Procs :
          Regresses(w) => \/ Invalidates(w) \/ SwitchesServer(w) \/ SwitchesVolume(w)
                          \/ ResetsAfterQuery(w)]_vars

\* the volume query has failed with a code that is not recoverable and the
\* server session is gone
C27_Witness ==
    \E w \in Procs :
        /\ fr[w].pc = "ec_begin" /\ fr[w].ecRet = "ea_reset" /\ fr[w].ret = "ENOENT"
        /\ "disconnect" \in gh[w].did
        /\ m[w].m_serverId = NullId /\ m[w].m_cachedUser # NoCred

\* the sites of the calls that take the volume handle: all but the two
\* volume listings of a server root
VolumeSites == FileSites \ {"getvols", "getvols_again"}

\* C28: a worker that stands before a call on a volume, first issue or
\* re-issue, has the server of its request as the cached server name, the
\* volume of its request as the cached volume name, and the handle of that
\* volume.
C28_ExactVolume ==
    \A w \in Procs :
        fr[w].pc \in VolumeSites =>
            /\ m[w].m_cachedServer = PU(w).server
            /\ m[w].m_cachedVolume = PU(w).volume
            /\ m[w].m_volumeId = <<PU(w).server, PU(w).volume>>

\* after a clean operation on volume V, a worker asked for a file of volume W
\* stands before the re-issued call with the handle of W
C28_Witness ==
    \E w \in Procs :
        /\ gh[w].track = "pair"
        /\ gh[w].prev.target = <<"A", <<"V">>>> /\ gh[w].prev.clean
        /\ gh[w].prev.attach = 1
        /\ fr[w].pc = "stat_path" /\ fr[w].retried
        /\ PU(w).volume = <<"W">>
        /\ m[w].m_volumeId = <<"A", <<"W">>>>

\* C29: stat of a server root passes with one synthetic entry, makes no
\* call into the library and leaves the session cache as it was; stat of a
\* volume root passes with exactly one entry named after the volume, however
\* the attach procedure and the metadata query end.
C29_RootStatPasses ==
    [][\A w \in Procs :
         LET pu == parseAfpUrl(rq'[w].url)
         IN /\ (fr[w].pc = "idle" /\ fr'[w].pc # "idle"
                 /\ rq'[w].verb = "stat" /\ ~pu.hasVolume)
               => /\ fr'[w].pc = "done" /\ res'[w] = Passed
                  /\ out'[w] = <<[kind |-> "statEntry", synthetic |-> TRUE,
                                  name |-> <<>>]>>
                  /\ m'[w] = m[w]
                  /\ gh'[w].did = {} /\ gh'[w].connect = 0 /\ gh'[w].attach = 0
            /\ (fr[w].pc # "done" /\ fr'[w].pc = "done"
                 /\ rq'[w].verb = "stat" /\ pu.hasVolume /\ ~pu.hasPath)
               => /\ res'[w] = Passed
                  /\ Len(out'[w]) = 1
                  /\ out'[w][1].kind = "statEntry"
                  /\ out'[w][1].name = pu.volume]_vars

\* a stat of a volume root has passed with the synthetic entry although the
\* session it needed could not be established: no server handle is cached
C29_Witness ==
    \E w \in Procs :
        /\ rq[w].verb = "stat" /\ PU(w).hasVolume /\ ~PU(w).hasPath
        /\ fr[w].pc = "done" /\ res[w] = Passed
        /\ Len(out[w]) = 1 /\ out[w][1].synthetic
        /\ m[w].m_serverId = NullId

\* the pages a listing has emitted so far, and the number of their entries
IsPage(e) == e.kind = "listEntries"
Pages(o) == SelectSeq(o, IsPage)
Emitted(o) ==
    LET p == Pages(o) IN IF p = <<>> THEN 0 ELSE p[Len(p)].from + p[Len(p)].n
FinalPage(o) ==
    LET p == Pages(o) IN p # <<>> /\ (p[Len(p)].eod \/ p[Len(p)].n = 0)

\* C30: listDir within a volume emits the pages of the directory one after
\* the other without gap or overlap, starting at entry 0 and none longer
\* than BATCH; it asks for each page, first issue or re-issue after a
\* recovery, at the number of entries emitted so far; it stops with success
\* at the first page that sets end-of-data or is empty, having emitted as
\* many entries as the directory holds; the self entry is emitted at most
\* once and before every page.
C30_PaginatedListing ==
    [][\A w \in Procs :
         (rq'[w].verb = "listDir" /\ parseAfpUrl(rq'[w].url).hasVolume) =>
            LET o == out'[w]
                p == Pages(o)
            IN /\ \A i \in 1..Len(o) : o[i].kind = "listEntry" => i = 1
               /\ \A i \in 1..Len(p) :
                     /\ p[i].n <= BATCH
                     /\ p[i].from = IF i = 1 THEN 0 ELSE p[i - 1].from + p[i - 1].n
                     /\ i < Len(p) => ~p[i].eod /\ p[i].n > 0
               /\ fr'[w].pc # "done" => fr'[w].start = Emitted(o)
               /\ o # out[w] => fr[w].pc \in {"ld_stat", "readdir"}
               /\ (fr[w].pc = "readdir" /\ o # out[w] /\ FinalPage(o))
                  => fr'[w].pc = "done" /\ res'[w] = Passed
               /\ (fr[w].pc = "readdir" /\ fr'[w].pc = "done" /\ res'[w] = Passed)
                  => FinalPage(o) /\ Emitted(o) = fr[w].size]_vars

\* a listing of more than one page that has emitted the self entry and its
\* first page stands, after a recovery, before the re-issued second call
C30_Witness ==
    \E w \in Procs :
        /\ rq[w].verb = "listDir" /\ PU(w).hasVolume
        /\ fr[w].pc = "readdir" /\ fr[w].retried
        /\ fr[w].start = BATCH /\ fr[w].size > BATCH
        /\ Len(out[w]) = 2 /\ out[w][1].kind = "listEntry"

\* C31: a read of get that fails ends the operation at once: the file is
\* closed, the mapped failure is returned, the session cache is left as it
\* is, the read is not issued again, and the host receives nothing more,
\* neither the empty terminator nor a chunk it already has.
C31_ReadFailureEndsGet ==
    [][\A w \in Procs :
         (fr[w].pc = "get_read" /\ fr'[w] # fr[w] /\ fr'[w].ret # OKAY) =>
            /\ fr'[w].pc = "done"
            /\ res'[w] = Failure(mapAfpError(fr'[w].ret), <<>>)
            /\ m'[w] = m[w]
            /\ out'[w] = out[w]
            /\ gh'[w].did = {"file", "close"}]_vars

\* a get has failed on a recoverable error of a read after it had forwarded
\* a chunk; the session is still attached
C31_Witness ==
    \E w \in Procs :
        /\ rq[w].verb = "get" /\ fr[w].pc = "done"
        /\ fr[w].ret \in Recoverable /\ res[w].err # "OK"
        /\ gh[w].did = {"file", "close"}
        /\ out[w] # <<>> /\ out[w][Len(out[w])].kind = "data"
        /\ out[w][Len(out[w])].d # <<>>
        /\ m[w].m_volumeId # NullId

\* worker w invalidates its session after a failed call and sets out to
\* establish it again
Recovers(w) == fr[w].pc \in FileSites /\ fr'[w].pc = "ec_begin"

\* C32 as stated: an operation invalidates its session at most once.
C32_AsStated ==
    [][\A w \in Procs : Recovers(w) => gh[w].recoveries = 0]_vars

\* C32: a call is followed by at most one recovery: the handler recovers only
\* from the first issue of a call, on a recoverable code, and comes back to
\* the same call; a failure of the re-issued call invalidates nothing and
\* leads to no further attempt, and ends the handler everywhere but at the
\* existence check of put.
C32_OneRecoveryPerCall ==
    [][\A w \in Procs :
         /\ Recovers(w) =>
               /\ ~fr[w].retried /\ fr'[w].retried
               /\ fr'[w].site = fr[w].site
               /\ isRecoverableSessionError(fr'[w].ret)
               /\ gh'[w].recoveries = Min(CountCap, gh[w].recoveries + 1)
         /\ (fr[w].pc \in FileSites /\ fr[w].retried
             /\ fr'[w] # fr[w] /\ fr'[w].ret # OKAY) =>
               /\ m'[w] = m[w]
               /\ "disconnect" \notin gh'[w].did
               /\ gh'[w].recoveries = gh[w].recoveries
               /\ fr[w].pc # "put_stat" => fr'[w].pc = "done"]_vars

\* an operation is in its second recovery
C32_Witness ==
    \E w \in Procs :
        /\ gh[w].recoveries = 2
        /\ fr[w].pc = "ec_begin" /\ fr[w].retried
        /\ m[w] = EmptySession(m[w].m_connSetupDone)

\* the target of worker w carries a user name and a password
Complete(f) == f.username # NoCred /\ f.password # NoCred
SameCreds(f, g) == f.username = g.username /\ f.password = g.password

C34_AsStated ==
    \A w \in Procs :
        gh[w].freshAtBegin =>
            /\ fr[w].pc \in {"ec_brk1", "done"}
            /\ fr[w].pc = "done" => FailedFast(w)

\* C35 as stated: between operations a worker without a server handle has
\* an empty session cache (server name, user name, password, volume handle
\* and volume name), and a worker with a volume handle has a server handle.
C35_AsStated ==
    \A w \in Procs :
        fr[w].pc \in {"idle", "done", "exited"} =>
            /\ m[w].m_serverId = NullId
               => m[w] = EmptySession(m[w].m_connSetupDone)
            /\ m[w].m_volumeId # NullId => m[w].m_serverId # NullId

\* the positions of a worker between flock and the close of the descriptor
LockedPcs == {"ec_brk2", "ec_unlink2", "ec_connect", "ec_backoff"}

\* C36: a worker holds the connect lock only between taking it and the next
\* return, success or re-prompt of its connect procedure: it does not hold
\* it once the procedure has returned, at a prompt, at any call of a verb,
\* between operations or when an operation starts.
C36_LockReleased ==
    \A w \in Procs : fr[w].lockFd => fr[w].pc \in LockedPcs

\* a worker has returned from a connect procedure that ran out of retries,
\* and its sibling holds the lock
C36_Witness ==
    \E w \in Procs, v \in Procs :
        /\ w # v
        /\ fr[w].pc = "done" /\ fr[w].ret \in Transient
        /\ gh[w].did = {"connect"} /\ ~fr[w].lockFd
        /\ fr[v].lockFd

\* C37 as stated: no worker calls afp_sl_connect while a breaker marker
\* younger than the cooldown exists.
C37_AsStated ==
    [][\A w \in Procs :
         (fr[w].pc = "ec_connect" /\ fr'[w] # fr[w]) => ~BreakerActive]_vars

\* the positions at which a handler holds an open file id
OpenPcs == {"get_read", "put_write"}

\* C38: a handler comes to hold a file id only by a successful open; the
\* step by which it gives the id up, to return or to go on to the chmod of
\* put, makes the close call, and no other step of any handler makes one; a
\* read or write is made only while the id is held.
C38_HandlesReleased ==
    [][\A w \in Procs :
         fr'[w] # fr[w] =>
            /\ "close" \in gh'[w].did
                 <=> (fr[w].pc \in OpenPcs /\ fr'[w].pc \notin OpenPcs)
            /\ fr[w].pc \in OpenPcs
                 => fr'[w].pc \in {fr[w].pc, "done", "put_chmod"}
            /\ (fr'[w].pc \in OpenPcs /\ fr[w].pc \notin OpenPcs)
                 => /\ fr[w].pc = IF fr'[w].pc = "get_read" THEN "get_open"
                                  ELSE "put_open"
                    /\ fr'[w].ret = OKAY]_vars

\* a put has opened its file, failed to obtain data from the caller, and
\* returned with the close as the only call of its last step
C38_Witness ==
    \E w \in Procs :
        /\ rq[w].verb = "put" /\ fr[w].pc = "done"
        /\ res[w].err = "ERR_CANNOT_WRITE"
        /\ gh[w].did = {"close"}

\* C39: the alarm is pending only while a worker is inside a connect call;
\* a worker the alarm has terminated holds no lock; and whenever a worker is
\* stuck in a connect call and its sibling waits for the lock, the sibling
\* gets the lock.
C39_HardTimeout ==
    /\ [](\A w \in Procs :
            /\ fr[w].alarm => fr[w].pc = "ec_hung"
            /\ fr[w].pc = "killed" => ~fr[w].lockFd)
    /\ \A w \in Procs, v \in Procs :
          (fr[w].pc = "ec_hung" /\ fr[w].lockFd /\ fr[v].pc \in {"ec_lock", "ec_relock"})
             ~> fr[v].lockFd

\* a worker that hung in a connect call with the lock has been terminated
\* and its sibling, after some retries of its own, sleeps with the lock
C39_Witness ==
    \E w \in Procs, v \in Procs :
        /\ fr[w].pc = "killed" /\ gh[w].did = {}
        /\ fr[v].lockFd /\ fr[v].pc = "ec_backoff" /\ ~fr[v].alarm

\* the positions of a worker inside ensureConnected
InConnect == ConnectPcs \cup {"ec_begin"}

\* C40: every run of the connect procedure returns: a worker inside
\* ensureConnected is later outside it, back in its verb with a session or
\* done with a failure; in particular a worker that waits for the connect
\* lock gets it.
C40_ConnectTerminates ==
    /\ \A w \in Procs : (fr[w].pc \in InConnect) ~> (fr[w].pc \notin InConnect)
    /\ \A w \in Procs : (fr[w].pc \in {"ec_lock", "ec_relock"}) ~> fr[w].lockFd
    /\ [][\A w \in Procs :
            (fr[w].pc \in InConnect /\ fr'[w].pc \notin InConnect) =>
               \/ fr'[w].pc = "getvols" /\ m'[w].m_serverId # NullId
               \/ /\ fr'[w].pc = "done"
                  /\ res'[w].err \in {"ERR_USER_CANCELED", "ERR_CANNOT_CONNECT",
                                      "ERR_SERVER_TIMEOUT"}]_vars

\* a worker waits for the lock after a re-prompt while its sibling sleeps
\* between two connect calls with the lock
C40_Witness ==
    \E w \in Procs, v \in Procs :
        /\ fr[w].pc = "ec_relock" /\ fr[w].dialogUsed
        /\ fr[v].pc = "ec_backoff" /\ fr[v].lockFd
        /\ fr[v].transientRetries = MAX_CONNECT_RETRIES - 1

====
